---- MODULE Spec2Model ----
(***************************************************************************)
(* Model of the react-phoenix connection / channel lifecycle manager:      *)
(*   PhoenixConnectionManager (core/connection.ts),                        *)
(*   PhoenixChannelManager    (core/channels.ts),                          *)
(*   PhoenixClient facade     (phoenix-client.ts, modular version).        *)
(*                                                                         *)
(* The JavaScript event loop is single threaded: every action below is one *)
(* macrotask (a public call up to its first await, a transport callback, a *)
(* timer callback, or the continuation of an awaited promise).             *)
(*                                                                         *)
(* Handlers are written as operators from a "world" record (all program    *)
(* state) to the next world record, so that a handler which calls another  *)
(* handler (forceReconnect -> disconnect) is a composition of operators.   *)
(***************************************************************************)
EXTENDS Integers, Sequences, FiniteSets, Bags, TLC

VARIABLES
    socket,            \* PhoenixConnectionManager.socket   (0 = null, else transport id)
    connectionState,   \* PhoenixConnectionManager.connectionState
    connectionParams,  \* PhoenixConnectionManager.connectionParams (<<>> = null, <<p>> = p)
    options,           \* PhoenixConnectionManager.options  (env, config)
    lastReconnectTime, \* PhoenixConnectionManager.lastReconnectTime
    storage,           \* sessionStorage records used through phoenixStorage
    socks,             \* the transports constructed so far: id -> transport state
    timers,            \* pending setTimeout callbacks of the connection manager (bag)
    waiters,           \* connect() calls suspended in waitForConnection (bag)
    now,               \* Date.now(), in milliseconds
    cmSocket,          \* PhoenixChannelManager.socket (0 = null)
    channels,          \* PhoenixChannelManager.channels: topic -> channel object id
    channelStates,     \* PhoenixChannelManager.channelStates: topic -> ChannelState
    messageListeners,  \* PhoenixChannelManager.messageListeners: topic -> event -> set of callbacks
    chans,             \* the channel objects created so far: id -> transport channel
    joins,             \* joinChannel() calls suspended in performChannelJoin (bag)
    sends,             \* sendMessage() calls waiting for the push acknowledgment (bag)
    lastForceCall,     \* history: Date.now() of the latest forceReconnect() call (0 = none)
    emitterListeners,  \* eventUtils emitter: event -> its handlers in insertion order
    listenerCounts,    \* PhoenixEventManager.listenerCounts: event -> number
    clientConfig,      \* PhoenixClient.config
    errorHandlerSetup, \* window.__phoenixErrorHandlerSetup
    guardInstalls,     \* wrappers put around console.error in this page so far
    fx                 \* observable effects of the last macrotask, in program order

vars == <<socket, connectionState, connectionParams, options, lastReconnectTime,
          storage, socks, timers, waiters, now, cmSocket, channels, channelStates,
          messageListeners, chans, joins, sends, lastForceCall, emitterListeners,
          listenerCounts, clientConfig, errorHandlerSetup, guardInstalls, fx>>

-----------------------------------------------------------------------------
(* Bounds of the model *)

MaxSockets == 2
MaxAttempts == 2
MaxWaiters == 2
MaxTimers == 1
MaxTime == 10000
MaxTries == 12
NumTopics == 3
MaxChans == 3
MaxJoins == 1
MaxSends == 1
MaxMessages == 1
NumCallbacks == 3
MaxBindings == 3
(* PhoenixChannelManager.maxChannels, scaled down from the program's 50 *)
maxChannels == 2
(* PhoenixChannelManager.maxListenersPerEvent, scaled down from the program's 10 *)
maxListenersPerEvent == 2
NumHandlers == 3
(* PhoenixEventManager.maxListenersPerEvent, scaled down from the program's 20 *)
eventMaxListenersPerEvent == 2

(* Program constants *)

reconnectThrottleMs == 5000
ForceReconnectDelayMs == 1000
PollRecoveryDelayMs == 2000
WaitCheckIntervalMs == 50
WaitMaxAttempts == 100

(* The model clock advances in steps of the shortest timer delay *)
TickMs == ForceReconnectDelayMs
(* Date.now() at construction: any value not below the throttle window, as  *)
(* lastReconnectTime starts at 0 and the wall clock is far beyond it         *)
StartTime == reconnectThrottleMs

NULL == "null"
NoSock == 0
NoTime == 0
(* new Date(): the value of a time stamp is never read by the program, only
   whether it is set *)
NewDate == 1
EmptyMap == [k \in {} |-> NULL]

Fx(k, v, n) == [k |-> k, v |-> v, n |-> n]

-----------------------------------------------------------------------------
(* The world record: the whole program state, threaded through the handlers *)

World ==
    [socket |-> socket, connectionState |-> connectionState,
     connectionParams |-> connectionParams, options |-> options,
     lastReconnectTime |-> lastReconnectTime, storage |-> storage,
     socks |-> socks, timers |-> timers, waiters |-> waiters, now |-> now,
     cmSocket |-> cmSocket, channels |-> channels, channelStates |-> channelStates,
     messageListeners |-> messageListeners, chans |-> chans, joins |-> joins,
     sends |-> sends, lastForceCall |-> lastForceCall,
     emitterListeners |-> emitterListeners, listenerCounts |-> listenerCounts,
     clientConfig |-> clientConfig, errorHandlerSetup |-> errorHandlerSetup,
     guardInstalls |-> guardInstalls, fx |-> fx]

Commit(w) ==
    /\ socket' = w.socket
    /\ connectionState' = w.connectionState
    /\ connectionParams' = w.connectionParams
    /\ options' = w.options
    /\ lastReconnectTime' = w.lastReconnectTime
    /\ storage' = w.storage
    /\ socks' = w.socks
    /\ timers' = w.timers
    /\ waiters' = w.waiters
    /\ now' = w.now
    /\ cmSocket' = w.cmSocket
    /\ channels' = w.channels
    /\ channelStates' = w.channelStates
    /\ messageListeners' = w.messageListeners
    /\ chans' = w.chans
    /\ joins' = w.joins
    /\ sends' = w.sends
    /\ lastForceCall' = w.lastForceCall
    /\ emitterListeners' = w.emitterListeners
    /\ listenerCounts' = w.listenerCounts
    /\ clientConfig' = w.clientConfig
    /\ errorHandlerSetup' = w.errorHandlerSetup
    /\ guardInstalls' = w.guardInstalls
    /\ fx' = w.fx

(* A macrotask starts with an empty effect log and the name of its entry point *)
Begin(op, v, n) == [World EXCEPT !.fx = <<Fx(op, v, n)>>]
Log(w, k, v, n) == [w EXCEPT !.fx = Append(@, Fx(k, v, n))]

(* Reading an effect log *)
Did(log, k) == \E i \in 1..Len(log) : log[i].k = k
DidWith(log, k, v) == \E i \in 1..Len(log) : log[i].k = k /\ log[i].v = v
Entered(log, op) == log # <<>> /\ log[1].k = op

BagAdd(b, x) == b (+) SetToBag({x})
BagDel(b, x) == b (-) SetToBag({x})
BagRemoveAll(b, x) == [y \in BagToSet(b) \ {x} |-> b[y]]

(* JavaScript object spread {...a, ...b} on records seen as functions *)
Spread(a, b) == [k \in (DOMAIN a) \cup (DOMAIN b) |-> IF k \in DOMAIN b THEN b[k] ELSE a[k]]

-----------------------------------------------------------------------------
(* Transport (phoenix Socket): an external collaborator.  A transport is     *)
(* "connecting" after construction, "open" while it reports isConnected(),   *)
(* "closed" after it lost the connection (it retries by itself), and         *)
(* "disconnected" once the client has called disconnect() on it.             *)

NoTransport == "none"
FreeSocks(w) == {i \in 1..MaxSockets : w.socks[i] = "none"}
NewSock(w) == CHOOSE i \in FreeSocks(w) : \A j \in FreeSocks(w) : i <= j
LiveSocks(w) == {i \in 1..MaxSockets : w.socks[i] \in {"connecting", "open", "closed"}}
(* "orphaned": a transport that was never asked to disconnect and whose     *)
(* connection manager was discarded; its callbacks reach that manager only    *)
Undisconnected(w) == LiveSocks(w) \cup {i \in 1..MaxSockets : w.socks[i] = "orphaned"}
SocketIsConnected(w, s) == s # NoSock /\ w.socks[s] = "open"

-----------------------------------------------------------------------------
(* PhoenixStorageManager over sessionStorage *)

(* storage.available: whether sessionStorage exists and takes writes; when  *)
(* it does not, set() stores nothing and get() returns its default            *)
saveConfig(w, config) ==
    IF w.storage.available THEN [w EXCEPT !.storage.config = <<config>>] ELSE w
saveConnectionParams(w, p) ==
    IF w.storage.available
    THEN [w EXCEPT !.storage.params = <<[endpoint |-> p.endpoint, params |-> p.params]>>]
    ELSE w
loadConnectionParams(w) == w.storage.params
clearConnectionParams(w) == [w EXCEPT !.storage.params = <<>>]
loadConfig(w) == w.storage.config
clearStoredConfig(w) == [w EXCEPT !.storage.config = <<>>]
clearAll(w) == clearConnectionParams(clearStoredConfig(w))

-----------------------------------------------------------------------------
(* timingUtils.calculateBackoffDelay, the reconnectAfterMs of the connection *)
(* manager's transport, and the delay table of the single-class client        *)

BaseDelayMs == 1000
MaxBackoffMs == 30000

Minimum(a, b) == IF a <= b THEN a ELSE b
Maximum(a, b) == IF a >= b THEN a ELSE b

RECURSIVE Pow2(_)
Pow2(n) == IF n <= 0 THEN 1 ELSE 2 * Pow2(n - 1)

(* A backoff without its ceiling: the variant the backoff property must     *)
(* tell apart from calculateBackoffDelay                                      *)
calculateBackoffDelayUncapped(attempt) == BaseDelayMs * Pow2(attempt)

calculateBackoffDelay(attempt) == Minimum(BaseDelayMs * Pow2(attempt), MaxBackoffMs)

RECONNECT_INTERVALS == <<1000, 2000, 4000, 8000, 16000, 32000, 64000, 128000>>

(* the index is 0-based in the source *)
getReconnectDelay(tries) ==
    LET index == Minimum(tries - 1, Len(RECONNECT_INTERVALS) - 1)
    IN RECONNECT_INTERVALS[Maximum(0, index) + 1]

-----------------------------------------------------------------------------
(* PhoenixConnectionManager *)

InitialConnectionState ==
    [status |-> "disconnected", reconnectAttempts |-> 0, error |-> NULL,
     lastConnected |-> NoTime, lastDisconnected |-> NoTime]

DefaultConfig ==
    [url |-> NULL, authParams |-> NULL, useLongPoll |-> FALSE,
     disableLongPollFallback |-> FALSE]

isConnected(w) == SocketIsConnected(w, w.socket) /\ w.connectionState.status = "connected"

(* A guard that also admits a connect() while reconnecting: the variant the *)
(* canConnect property must tell apart from canConnect                       *)
canConnectWhileReconnecting(w) ==
    w.connectionState.status \in {"disconnected", "error", "reconnecting"}

canConnect(w) == w.connectionState.status \in {"disconnected", "error"}

updateState(w, updates) ==
    LET ns == Spread(w.connectionState, updates)
    IN [w EXCEPT !.connectionState = ns, !.fx = Append(@, Fx("state", ns.status, 0))]

updateConfig(w, partial) ==
    LET cfg == Spread(w.options.config, partial)
    IN saveConfig([w EXCEPT !.options.config = cfg], cfg)

getConfig(w) == w.options.config

(* Connection params: a field that is NULL is a key the object lacks;       *)
(* params is the sub-map, empty when the key is absent                        *)
NoParams == [endpoint |-> NULL, params |-> EmptyMap, headers |-> NULL, timeout |-> NULL]

(* {...previous, ...params} on one scalar field *)
Override(old, new) == IF new # NULL THEN new ELSE old

mergeConnectionParams(w, p) ==
    LET stored == loadConnectionParams(w)
        previous == IF stored = <<>> THEN NoParams
                    ELSE Spread(NoParams, stored[1])
    IN [endpoint |-> Override(previous.endpoint, p.endpoint),
        params |-> Spread(previous.params, p.params),
        headers |-> Override(previous.headers, p.headers),
        timeout |-> Override(previous.timeout, p.timeout)]

(* The URL derived from the environment's base URL; NULL when there is none *)
EnvSocketUrl(env) == IF env = NULL THEN NULL ELSE "wss://env/socket"

(* NULL stands for the thrown 'No WebSocket URL configured' *)
buildSocketUrl(w, p) ==
    IF p.endpoint # NULL THEN p.endpoint
    ELSE IF w.options.config.url # NULL THEN w.options.config.url
    ELSE EnvSocketUrl(w.options.env)

createSocket(w, url) ==
    [w EXCEPT !.socks[NewSock(w)] = "connecting",
              !.socket = NewSock(w),
              !.fx = Append(@, Fx(IF w.options.config.useLongPoll
                                  THEN "new Socket LongPoll" ELSE "new Socket WebSocket",
                                  url, NewSock(w)))]

(* A failure handler that leaves the attempt counter alone: the variant the *)
(* connect-failure property must tell apart from handleConnectionError       *)
handleConnectionErrorUncounted(w, error) ==
    Log(updateState(w, [status |-> "error", error |-> error]),
        "emit", "phoenix_error", 0)

handleConnectionError(w, error) ==
    Log(updateState(w, [status |-> "error", error |-> error,
                        reconnectAttempts |-> w.connectionState.reconnectAttempts + 1]),
        "emit", "phoenix_error", 0)

(* PhoenixChannelManager.setSocket, called by the facade when its connect returns *)
setSocket(w, s) == [w EXCEPT !.cmSocket = s]

(* The waiter of a suspended connect() carries the time the wait began, who  *)
(* receives the handle, and the value reconnectAttempts had when connect()   *)
(* was called (the last is read by no handler).                              *)
(* connect(): the call up to its first suspension.  facade: the call came   *)
(* through PhoenixClient.connect, which hands the returned handle to the    *)
(* channel manager.  ctor: whether the transport constructor throws.        *)
connect(w, p, facade, ctor) ==
    IF ~canConnect(w)
    THEN LET r == Log(w, "return", "socket", w.socket)
         IN IF facade THEN setSocket(r, w.socket) ELSE r
    ELSE LET w1 == updateState(w, [status |-> "connecting", error |-> NULL])
             effectiveParams == mergeConnectionParams(w1, p)
             socketUrl == buildSocketUrl(w1, effectiveParams)
         IN IF socketUrl = NULL
            THEN Log(handleConnectionError(w1, "NO_URL"), "throw", "NO_URL", 0)
            ELSE IF ctor = "throws"
            THEN Log(handleConnectionError(w1, "CONSTRUCT"), "throw", "CONSTRUCT", 0)
            ELSE LET w2 == createSocket(w1, socketUrl)
                     w3 == saveConnectionParams(
                               [w2 EXCEPT !.connectionParams = <<effectiveParams>>],
                               effectiveParams)
                 IN [w3 EXCEPT !.waiters =
                        BagAdd(@, [start |-> w.now, facade |-> facade,
                                   attempts |-> w.connectionState.reconnectAttempts])]

(* A disconnect that lets the error of the transport's close escape: the   *)
(* variant the disconnect property must tell apart from disconnect           *)
disconnectUntolerant(w, reason, closeThrows) ==
    IF w.socket = NoSock THEN w
    ELSE LET w1 == Log(w, "socket.disconnect", reason, w.socket)
         IN IF closeThrows THEN Log(w1, "throw", "CLOSE", w.socket)
            ELSE updateState(
                     Log([w1 EXCEPT !.socks[w.socket] = "disconnected", !.socket = NoSock],
                         "release", reason, w.socket),
                     [status |-> "disconnected", lastDisconnected |-> NewDate])

disconnect(w, reason, closeThrows) ==
    IF w.socket = NoSock THEN w
    ELSE LET w1 == Log(w, "socket.disconnect", reason, w.socket)
             w2 == IF closeThrows THEN w1
                   ELSE [w1 EXCEPT !.socks[w.socket] = "disconnected"]
             w3 == Log([w2 EXCEPT !.socket = NoSock], "release", reason, w.socket)
         IN updateState(w3, [status |-> "disconnected", lastDisconnected |-> NewDate])

(* A pending setTimeout callback: which handler set it, when it is due, and *)
(* whether a reset() has happened since it was set (read by no handler)      *)
Timer(kind, due) == [kind |-> kind, due |-> due, survivedReset |-> FALSE]

SurvivingTimers(b) ==
    LET marked == {[t EXCEPT !.survivedReset = TRUE] : t \in BagToSet(b)}
    IN [m \in marked |->
           CopiesIn(m, b) + CopiesIn([m EXCEPT !.survivedReset = FALSE], b)]

(* forceReconnect() past its throttle *)
forceReconnectNow(w, closeThrows) ==
    LET w1 == disconnect([w EXCEPT !.lastReconnectTime = w.now],
                         "Force reconnect", closeThrows)
        w2 == [w1 EXCEPT !.connectionState.reconnectAttempts = 0]
    IN Log([w2 EXCEPT !.timers =
               BagAdd(@, Timer("force", w.now + ForceReconnectDelayMs))],
           "setTimeout", "force", ForceReconnectDelayMs)

(* A forceReconnect without the throttle, as in the single-class client:    *)
(* the variant the throttling property must tell apart from forceReconnect  *)
forceReconnectUnthrottled(w, closeThrows) == forceReconnectNow(w, closeThrows)

forceReconnect(w, closeThrows) ==
    IF w.now - w.lastReconnectTime < reconnectThrottleMs
    THEN Log(w, "warn", "throttled", 0)
    ELSE forceReconnectNow(w, closeThrows)

reset(w, closeThrows) ==
    clearConnectionParams(
        [disconnect(w, "Reset", closeThrows) EXCEPT
            !.connectionState = InitialConnectionState,
            !.connectionParams = <<>>])

(* handlePollStatusError past the switch of the transport *)
pollStatusReconnect(w, closeThrows) ==
    LET w2 == updateState(w, [status |-> "reconnecting"])
        w3 == disconnect(w2, "Poll status recovery", closeThrows)
    IN Log([w3 EXCEPT !.socket = NoSock,
                      !.timers = BagAdd(@, Timer("poll", w.now + PollRecoveryDelayMs))],
           "setTimeout", "poll", PollRecoveryDelayMs)

(* A recovery that keeps long-poll enabled: the variant the recovery        *)
(* property must tell apart from handlePollStatusError                      *)
handlePollStatusErrorKeepingLongPoll(w, closeThrows) == pollStatusReconnect(w, closeThrows)

handlePollStatusError(w, closeThrows) ==
    pollStatusReconnect(updateConfig(w, [useLongPoll |-> FALSE]), closeThrows)

(* handleSocketError for an error that is not of the poll-status class *)
handleGenericSocketError(w, error, closeThrows) ==
    LET w1 == IF w.connectionState.status # "reconnecting"
              THEN updateState(w, [status |-> "error", error |-> error])
              ELSE w
    IN Log(w1, "emit", "phoenix_error", 0)

(* A handleSocketError that does not single out the poll-status class: the *)
(* variant the error-event property must tell apart from handleSocketError  *)
handleSocketErrorAllGeneric(w, error, closeThrows) ==
    handleGenericSocketError(w, error, closeThrows)

(* error: "poll" for a message containing 'unhandled poll status', else "socket" *)
handleSocketError(w, error, closeThrows) ==
    IF error = "poll" THEN handlePollStatusError(w, closeThrows)
    ELSE handleGenericSocketError(w, error, closeThrows)

(* An onOpen that keeps the attempt counter and the last error: the variant *)
(* the counter property must tell apart from onOpen                           *)
onOpenKeepingAttempts(w) ==
    LET wasReconnecting == w.connectionState.status = "reconnecting"
        w1 == updateState(w, [status |-> "connected", lastConnected |-> NewDate])
    IN Log(w1, "emit", IF wasReconnecting THEN "phoenix_reconnect" ELSE "phoenix_connect", 0)

onOpen(w) ==
    LET wasReconnecting == w.connectionState.status = "reconnecting"
        w1 == updateState(w, [status |-> "connected", lastConnected |-> NewDate,
                              reconnectAttempts |-> 0, error |-> NULL])
    IN Log(w1, "emit", IF wasReconnecting THEN "phoenix_reconnect" ELSE "phoenix_connect", 0)

(* An onClose that goes to reconnecting whatever the status was: the       *)
(* variant the state-machine property must tell apart from onClose           *)
onCloseAlwaysReconnecting(w) ==
    Log(updateState(w, [status |-> "reconnecting", lastDisconnected |-> NewDate]),
        "emit", "phoenix_disconnect", 0)

onClose(w) ==
    LET w1 == IF w.connectionState.status = "connected"
              THEN updateState(w, [status |-> "reconnecting", lastDisconnected |-> NewDate])
              ELSE IF w.connectionState.status = "connecting"
              THEN updateState(w, [status |-> "disconnected", lastDisconnected |-> NewDate])
              ELSE w
    IN Log(w1, "emit", "phoenix_disconnect", 0)

(* The continuation of connect() after await waitForConnection() *)
WaitLimitMs == (WaitMaxAttempts - 1) * WaitCheckIntervalMs
(* A polling without its ceiling of checks: the variant the termination     *)
(* property must tell apart from WaitExpired                                  *)
WaitNeverExpired(w, wt) == FALSE

WaitExpired(w, wt) == w.now - wt.start >= WaitLimitMs

waitResolved(w, wt) ==
    LET w1 == Log([w EXCEPT !.waiters = BagDel(@, wt)], "return", "socket", w.socket)
    IN IF wt.facade THEN setSocket(w1, w.socket) ELSE w1

waitRejected(w, wt) ==
    Log(handleConnectionError([w EXCEPT !.waiters = BagDel(@, wt)], "WAIT_LIMIT"),
        "throw", "WAIT_LIMIT", 0)

(* The callback of the timer set by forceReconnect / handlePollStatusError *)
reconnectTimer(w, t, ctor) ==
    LET w1 == [w EXCEPT !.timers = BagDel(@, t)]
    IN IF w1.connectionParams # <<>>
       THEN connect(Log(w1, "connect", "stored", 0), w1.connectionParams[1], FALSE, ctor)
       ELSE w1

-----------------------------------------------------------------------------
(* Transport channel objects (phoenix Channel): external collaborator.      *)
(* state is the channel's own state field, read by joinChannel.             *)

Topics == 1..NumTopics
Callbacks == 1..NumCallbacks

NoChannel ==
    [state |-> "none", topic |-> 0, handlers |-> FALSE, joinedOnce |-> FALSE,
     bindings |-> EmptyBag]
FreeChans(w) == {i \in 1..MaxChans : w.chans[i].state = "none"}
NewChan(w) == CHOOSE i \in FreeChans(w) : \A j \in FreeChans(w) : i <= j

-----------------------------------------------------------------------------
(* PhoenixChannelManager *)

updateChannelState(w, topic, updates) ==
    LET currentState == IF topic \in DOMAIN w.channelStates THEN w.channelStates[topic]
                        ELSE [status |-> "disconnected", error |-> NULL,
                              lastJoined |-> NoTime, lastLeft |-> NoTime,
                              messageCount |-> 0]
        newState == Spread(currentState, updates)
    IN [w EXCEPT !.channelStates =
            [t \in (DOMAIN w.channelStates) \cup {topic} |->
                IF t = topic THEN newState ELSE w.channelStates[t]],
                 !.fx = Append(@, Fx("channel state", newState.status, topic))]

incrementMessageCount(w, topic) ==
    IF topic \in DOMAIN w.channelStates
    THEN [w EXCEPT !.channelStates[topic].messageCount = @ + 1]
    ELSE w

setupChannelHandlers(w, c) ==
    IF w.chans[c].handlers THEN w
    ELSE Log([w EXCEPT !.chans[c].handlers = TRUE], "install handlers", "", c)

(* The catch block of joinChannel *)
(* A join failure recorded as disconnected instead of error: the variant   *)
(* the channel state-machine property must tell apart from joinFailed        *)
joinFailedAsDisconnected(w, topic, code) ==
    Log(Log(updateChannelState(w, topic, [status |-> "disconnected", error |-> code]),
            "emit", "phoenix_channel_error", topic),
        "throw", code, topic)

joinFailed(w, topic, code) ==
    Log(Log(updateChannelState(w, topic, [status |-> "error", error |-> code]),
            "emit", "phoenix_channel_error", topic),
        "throw", code, topic)

(* joinChannel() past its guards, up to its suspension in performChannelJoin. *)
(* rejoin: what channel.join() does when this channel object was already    *)
(* joined once: the transport either throws or sends another join push.     *)
joinAdmitted(w, topic, rejoin) ==
    IF topic \in DOMAIN w.channels /\ w.chans[w.channels[topic]].state = "joined"
    THEN Log(w, "return", "channel", w.channels[topic])
    ELSE LET w1 == updateChannelState(w, topic, [status |-> "joining"])
             existing == topic \in DOMAIN w.channels
             c == IF existing THEN w.channels[topic] ELSE NewChan(w)
             w2 == IF existing THEN w1
                   ELSE Log([w1 EXCEPT !.chans[c] = [NoChannel EXCEPT !.state = "closed",
                                                                    !.topic = topic]],
                            "socket.channel", "", c)
             w3 == [w2 EXCEPT !.channels =
                       [t \in (DOMAIN w.channels) \cup {topic} |->
                           IF t = topic THEN c ELSE w.channels[t]]]
             w4 == setupChannelHandlers(w3, c)
         IN IF w4.chans[c].joinedOnce /\ rejoin = "throws"
            THEN joinFailed(w4, topic, "JOIN_TWICE")
            ELSE Log([w4 EXCEPT !.chans[c].state = "joining",
                                !.chans[c].joinedOnce = TRUE,
                                !.joins = BagAdd(@, [topic |-> topic, chan |-> c])],
                     "channel.join", "", c)

(* A joinChannel that lacks the capacity guard: the variant the capacity    *)
(* properties must tell apart from joinChannel                              *)
joinChannelUnguarded(w, topic, rejoin) ==
    IF w.cmSocket = NoSock THEN Log(w, "throw", "SOCKET_NOT_CONNECTED", topic)
    ELSE joinAdmitted(w, topic, rejoin)

joinChannel(w, topic, rejoin) ==
    IF w.cmSocket = NoSock THEN Log(w, "throw", "SOCKET_NOT_CONNECTED", topic)
    ELSE IF Cardinality(DOMAIN w.channels) >= maxChannels
    THEN Log(w, "throw", "MAX_CHANNELS_EXCEEDED", topic)
    ELSE joinAdmitted(w, topic, rejoin)

(* A join acknowledgement that keeps the error of an earlier failed join:   *)
(* the variant the join-outcome property must tell apart from joinOk          *)
joinOkKeepingError(w, j) ==
    LET w1 == [w EXCEPT !.joins = BagDel(@, j), !.chans[j.chan].state = "joined"]
        w2 == updateChannelState(w1, j.topic,
                  [status |-> "joined", lastJoined |-> NewDate])
    IN Log(Log(w2, "emit", "phoenix_channel_join", j.topic), "return", "channel", j.chan)

(* performChannelJoin: receive('ok') *)
joinOk(w, j) ==
    LET w1 == [w EXCEPT !.joins = BagDel(@, j), !.chans[j.chan].state = "joined"]
        w2 == updateChannelState(w1, j.topic,
                  [status |-> "joined", lastJoined |-> NewDate, error |-> NULL])
    IN Log(Log(w2, "emit", "phoenix_channel_join", j.topic), "return", "channel", j.chan)

(* performChannelJoin: receive('error') / receive('timeout') / the 10s timer *)
joinRejected(w, j, code) ==
    joinFailed([w EXCEPT !.joins = BagDel(@, j),
                         !.chans[j.chan].state =
                             IF @ \in {"joining"} THEN "errored" ELSE @],
               j.topic, code)

(* A leave that records and announces the leave of a topic it does not     *)
(* hold: the variant the unknown-topic leave property must tell apart from   *)
(* leaveChannel                                                              *)
leaveChannelUnconditional(w, topic, leaveThrows) ==
    LET held == topic \in DOMAIN w.channels
        w1 == IF held THEN Log(w, "channel.leave", "", w.channels[topic]) ELSE w
        w2 == IF held /\ ~leaveThrows
              THEN [w1 EXCEPT !.chans[w.channels[topic]].state = "leaving"] ELSE w1
        w3 == [w2 EXCEPT
                 !.channels = [t \in (DOMAIN w.channels) \ {topic} |-> w.channels[t]],
                 !.messageListeners =
                     [t \in (DOMAIN w.messageListeners) \ {topic} |->
                         w.messageListeners[t]]]
        w4 == updateChannelState(w3, topic,
                  [status |-> "disconnected", lastLeft |-> NewDate])
    IN Log(w4, "emit", "phoenix_channel_leave", topic)

leaveChannel(w, topic, leaveThrows) ==
    IF topic \notin DOMAIN w.channels THEN w
    ELSE LET c == w.channels[topic]
             w1 == Log(w, "channel.leave", "", c)
             w2 == IF leaveThrows THEN w1 ELSE [w1 EXCEPT !.chans[c].state = "leaving"]
             w3 == [w2 EXCEPT
                      !.channels = [t \in (DOMAIN w.channels) \ {topic} |-> w.channels[t]],
                      !.messageListeners =
                          [t \in (DOMAIN w.messageListeners) \ {topic} |->
                              w.messageListeners[t]]]
             w4 == updateChannelState(w3, topic,
                       [status |-> "disconnected", lastLeft |-> NewDate])
         IN Log(w4, "emit", "phoenix_channel_leave", topic)

(* A send that records its failure in the topic's ChannelState: the        *)
(* variant the unknown-topic property must tell apart from sendMessage       *)
sendMessageRecordingFailure(w, topic, event) ==
    IF topic \notin DOMAIN w.channels
    THEN Log(updateChannelState(w, topic, [status |-> "error",
                                            error |-> "CHANNEL_NOT_FOUND"]),
             "throw", "CHANNEL_NOT_FOUND", topic)
    ELSE Log([w EXCEPT !.sends = BagAdd(@, [topic |-> topic, chan |-> w.channels[topic]])],
             "channel.push", event, w.channels[topic])

sendMessage(w, topic, event) ==
    IF topic \notin DOMAIN w.channels THEN Log(w, "throw", "CHANNEL_NOT_FOUND", topic)
    ELSE Log([w EXCEPT !.sends = BagAdd(@, [topic |-> topic, chan |-> w.channels[topic]])],
             "channel.push", event, w.channels[topic])

sendOk(w, sd) ==
    Log(incrementMessageCount([w EXCEPT !.sends = BagDel(@, sd)], sd.topic),
        "return", "response", sd.topic)

(* A rejected send that is counted all the same: the variant the message-  *)
(* counter property must tell apart from sendRejected                        *)
sendRejectedCounted(w, sd, code) ==
    Log(incrementMessageCount([w EXCEPT !.sends = BagDel(@, sd)], sd.topic),
        "throw", code, sd.topic)

sendRejected(w, sd, code) ==
    Log([w EXCEPT !.sends = BagDel(@, sd)], "throw", code, sd.topic)

onMessageUndeduplicated(w, topic, event, callback) ==
    IF topic \notin DOMAIN w.channels THEN Log(w, "warn", "deferring", topic)
    ELSE LET topicListeners == IF topic \in DOMAIN w.messageListeners
                               THEN w.messageListeners[topic] ELSE EmptyMap
             eventListeners == IF event \in DOMAIN topicListeners
                               THEN topicListeners[event] ELSE {}
             c == w.channels[topic]
         IN IF Cardinality(eventListeners) >= maxListenersPerEvent
            THEN Log(w, "warn", "max listeners", topic)
            ELSE Log([w EXCEPT
                         !.messageListeners =
                             [t \in (DOMAIN w.messageListeners) \cup {topic} |->
                                 IF t = topic
                                 THEN [e \in (DOMAIN topicListeners) \cup {event} |->
                                          IF e = event THEN eventListeners \cup {callback}
                                          ELSE topicListeners[e]]
                                 ELSE w.messageListeners[t]],
                         !.chans[c].bindings = BagAdd(@, <<event, callback>>)],
                     "channel.on", event, callback)

onMessage(w, topic, event, callback) ==
    IF topic \notin DOMAIN w.channels THEN Log(w, "warn", "deferring", topic)
    ELSE LET topicListeners == IF topic \in DOMAIN w.messageListeners
                               THEN w.messageListeners[topic] ELSE EmptyMap
             eventListeners == IF event \in DOMAIN topicListeners
                               THEN topicListeners[event] ELSE {}
             Put(set) == [w EXCEPT !.messageListeners =
                 [t \in (DOMAIN w.messageListeners) \cup {topic} |->
                     IF t = topic
                     THEN [e \in (DOMAIN topicListeners) \cup {event} |->
                              IF e = event THEN set ELSE topicListeners[e]]
                     ELSE w.messageListeners[t]]]
             c == w.channels[topic]
         IN IF Cardinality(eventListeners) >= maxListenersPerEvent
            THEN Log(Put(eventListeners), "warn", "max listeners", topic)
            ELSE IF callback \notin eventListeners
            THEN Log([Put(eventListeners \cup {callback}) EXCEPT
                         !.chans[c].bindings = BagAdd(@, <<event, callback>>)],
                     "channel.on", event, callback)
            ELSE Put(eventListeners)

offMessage(w, topic, event, callback, offThrows) ==
    IF topic \notin DOMAIN w.messageListeners THEN w
    ELSE IF event \notin DOMAIN w.messageListeners[topic] THEN w
    ELSE LET topicListeners == w.messageListeners[topic]
             eventListeners == topicListeners[event] \ {callback}
             w1 == IF topic \in DOMAIN w.channels
                   THEN LET c == w.channels[topic]
                        IN Log(IF offThrows THEN w
                               ELSE [w EXCEPT !.chans[c].bindings = BagRemoveAll(@, <<event, callback>>)],
                               "channel.off", event, callback)
                   ELSE w
             pruned == [e \in (DOMAIN topicListeners) \ (IF eventListeners = {} THEN {event} ELSE {}) |->
                           IF e = event THEN eventListeners ELSE topicListeners[e]]
         IN [w1 EXCEPT !.messageListeners =
                [t \in (DOMAIN w.messageListeners) \ (IF DOMAIN pruned = {} THEN {topic} ELSE {}) |->
                    IF t = topic THEN pruned ELSE w.messageListeners[t]]]

cleanupLeaveAll(w, todo, leaveThrows) ==
    IF todo = <<>> THEN w
    ELSE LET f[i \in 0..Len(todo)] ==
                 IF i = 0 THEN w ELSE leaveChannel(f[i - 1], todo[i], leaveThrows)
         IN f[Len(todo)]

(* Map iteration order is not modelled: topics are left in ascending order *)
SortedTopics(S) ==
    LET f[i \in 0..NumTopics] ==
            IF i = 0 THEN <<>>
            ELSE IF i \in S THEN Append(f[i - 1], i) ELSE f[i - 1]
    IN f[NumTopics]

cleanup(w, leaveThrows) ==
    LET w1 == cleanupLeaveAll(Log(w, "cleanup", "", 0),
                              SortedTopics(DOMAIN w.channels), leaveThrows)
    IN [w1 EXCEPT !.channels = EmptyMap, !.channelStates = EmptyMap,
                  !.messageListeners = EmptyMap]

(* Transport callbacks installed by setupChannelHandlers *)
channelOnError(w, c) ==
    Log(updateChannelState(w, w.chans[c].topic, [status |-> "error", error |-> "CHANNEL"]),
        "emit", "phoenix_channel_error", w.chans[c].topic)

channelOnClose(w, c) ==
    Log(updateChannelState(w, w.chans[c].topic,
            [status |-> "disconnected", lastLeft |-> NewDate]),
        "emit", "phoenix_channel_leave", w.chans[c].topic)

-----------------------------------------------------------------------------
(* eventUtils.createEventEmitter: a Map from event to a Set of handlers.  A  *)
(* Set iterates in insertion order and ignores the add of a member, so it is *)
(* a sequence without repetition.                                            *)

Handlers == 1..NumHandlers
Events == {"phoenix_connect", "phoenix_error"}

SeqRange(q) == {q[i] : i \in 1..Len(q)}
HandlersOf(w, event) ==
    IF event \in DOMAIN w.emitterListeners THEN w.emitterListeners[event] ELSE <<>>

Emitter_on(w, event, handler) ==
    LET handlers == HandlersOf(w, event)
        added == IF handler \in SeqRange(handlers) THEN handlers
                 ELSE Append(handlers, handler)
    IN [w EXCEPT !.emitterListeners =
            [e \in (DOMAIN w.emitterListeners) \cup {event} |->
                IF e = event THEN added ELSE w.emitterListeners[e]]]

Emitter_off(w, event, handler) ==
    IF event \notin DOMAIN w.emitterListeners THEN w
    ELSE LET left == SelectSeq(w.emitterListeners[event], LAMBDA h : h # handler)
         IN [w EXCEPT !.emitterListeners =
                [e \in (DOMAIN w.emitterListeners) \ (IF left = <<>> THEN {event} ELSE {}) |->
                    IF e = event THEN left ELSE w.emitterListeners[e]]]

(* A handler is opaque: throwers is the set of handlers that throw in this  *)
(* emit.  An emit that lets a handler's exception escape: the variant the    *)
(* emission property must tell apart from Emitter_emit                       *)
Emitter_emitUnisolated(w, event, throwers) ==
    LET handlers == HandlersOf(w, event)
        f[i \in 0..Len(handlers)] ==
            IF i = 0 THEN w
            ELSE IF Did(f[i - 1].fx, "throw") THEN f[i - 1]
            ELSE LET called == Log(f[i - 1], "handler", event, handlers[i])
                 IN IF handlers[i] \in throwers
                    THEN Log(called, "throw", "HANDLER", handlers[i])
                    ELSE called
    IN f[Len(handlers)]

Emitter_emit(w, event, throwers) ==
    LET handlers == HandlersOf(w, event)
        f[i \in 0..Len(handlers)] ==
            IF i = 0 THEN w
            ELSE LET called == Log(f[i - 1], "handler", event, handlers[i])
                 IN IF handlers[i] \in throwers
                    THEN Log(called, "console.error", event, handlers[i])
                    ELSE called
    IN f[Len(handlers)]

Emitter_clear(w) == [w EXCEPT !.emitterListeners = EmptyMap]

(* PhoenixEventManager *)

CountOf(w, event) ==
    IF event \in DOMAIN w.listenerCounts THEN w.listenerCounts[event] ELSE 0

SetCount(w, event, n) ==
    [w EXCEPT !.listenerCounts =
        [e \in (DOMAIN w.listenerCounts) \cup {event} |->
            IF e = event THEN n ELSE w.listenerCounts[e]]]

EventManager_on(w, event, handler) ==
    IF CountOf(w, event) >= eventMaxListenersPerEvent
    THEN Log(w, "warn", "max event listeners", handler)
    ELSE SetCount(Emitter_on(w, event, handler), event, CountOf(w, event) + 1)

EventManager_off(w, event, handler) ==
    LET w1 == Emitter_off(w, event, handler)
    IN IF CountOf(w, event) > 0 THEN SetCount(w1, event, CountOf(w, event) - 1) ELSE w1

EventManager_emit(w, event, throwers) == Emitter_emit(w, event, throwers)

SumOf(m) ==
    LET f[S \in SUBSET DOMAIN m] ==
            IF S = {} THEN 0
            ELSE LET e == CHOOSE x \in S : TRUE IN m[e] + f[S \ {e}]
    IN f[DOMAIN m]

getResourceStats(w) ==
    [totalListeners |-> SumOf(w.listenerCounts),
     maxListenersPerEvent |-> eventMaxListenersPerEvent,
     eventsWithListeners |-> Cardinality(DOMAIN w.listenerCounts)]

EventManager_clear(w) == [Emitter_clear(w) EXCEPT !.listenerCounts = EmptyMap]

-----------------------------------------------------------------------------
(* PhoenixClient facade *)

Client_connect(w, p, ctor) == connect(w, p, TRUE, ctor)

Client_disconnect(w, closeThrows, leaveThrows) ==
    disconnect(cleanup(w, leaveThrows), "Client disconnect", closeThrows)

Client_resetConnection(w, closeThrows, leaveThrows) ==
    clearAll(reset(Client_disconnect(w, closeThrows, leaveThrows), closeThrows))

Client_forceReconnect(w, closeThrows) == forceReconnect(w, closeThrows)

(* setEnvironment: a new connection manager takes the place of the current *)
(* one, which keeps its transport                                             *)
Client_setEnvironment(w, env) ==
    Log([w EXCEPT !.options = [env |-> env, config |-> getConfig(w)],
                  !.socket = NoSock,
                  !.connectionState = InitialConnectionState,
                  !.connectionParams = <<>>,
                  !.lastReconnectTime = 0,
                  !.socks = [i \in 1..MaxSockets |->
                                IF i = w.socket /\ i \in LiveSocks(w)
                                THEN "orphaned" ELSE w.socks[i]]],
        "new PhoenixConnectionManager", env, 0)

Client_setWebSocketUrl(w, url) == updateConfig(w, [url |-> url])

Client_setAuthParams(w, authParams) == updateConfig(w, [authParams |-> authParams])

Client_setLongPollSupport(w, enabled) == updateConfig(w, [useLongPoll |-> enabled])

Client_disableLongPollFallback(w) == updateConfig(w, [disableLongPollFallback |-> TRUE])

Client_clearConfig(w) == updateConfig(clearStoredConfig(w), DefaultConfig)

(* text: "poll undefined" for a text containing 'unhandled poll status       *)
(* undefined', "poll" for one containing 'unhandled poll status' only, else   *)
(* "socket". The wrapper installed around console.error:                      *)
interceptedConsoleError(w, text, closeThrows) ==
    IF text = "poll undefined"
    THEN forceReconnect(Log(w, "warn", "global poll status", 0), closeThrows)
    ELSE Log(w, "originalConsoleError", text, 0)

(* The listener installed for 'unhandledrejection' *)
onUnhandledRejection(w, text, closeThrows) ==
    IF text \in {"poll", "poll undefined"}
    THEN Log(forceReconnect(Log(w, "warn", "unhandled rejection", 0), closeThrows),
             "preventDefault", "", 0)
    ELSE w

setupGlobalErrorHandler(w) ==
    IF ~w.errorHandlerSetup
    THEN Log([w EXCEPT !.errorHandlerSetup = TRUE, !.guardInstalls = @ + 1],
             "install guard", "", 0)
    ELSE w

loadStoredConfig(w) ==
    LET storedConfig == loadConfig(w)
    IN IF storedConfig # <<>>
       THEN [w EXCEPT !.clientConfig = Spread(@, storedConfig[1])]
       ELSE w

-----------------------------------------------------------------------------
(* Initial state: a freshly constructed default client (env = {}), empty     *)
(* session storage                                                           *)

InitWorld ==
    [socket |-> NoSock, connectionState |-> InitialConnectionState,
     connectionParams |-> <<>>, options |-> [env |-> NULL, config |-> DefaultConfig],
     lastReconnectTime |-> 0, storage |-> [config |-> <<>>, params |-> <<>>, available |-> TRUE],
     socks |-> [i \in 1..MaxSockets |-> NoTransport], timers |-> EmptyBag,
     waiters |-> EmptyBag, now |-> StartTime, cmSocket |-> NoSock,
     channels |-> EmptyMap, channelStates |-> EmptyMap, messageListeners |-> EmptyMap,
     chans |-> [i \in 1..MaxChans |-> NoChannel], joins |-> EmptyBag,
     sends |-> EmptyBag, lastForceCall |-> NoTime, emitterListeners |-> EmptyMap,
     listenerCounts |-> EmptyMap, clientConfig |-> DefaultConfig,
     errorHandlerSetup |-> TRUE, guardInstalls |-> 1, fx |-> <<>>]

(* new PhoenixClient() in a page whose session storage is that of world w:   *)
(* the connection manager is handed the default config object, and the       *)
(* stored record is merged into a new object held by the facade alone         *)
Client_new(w) ==
    setupGlobalErrorHandler(
        loadStoredConfig([InitWorld EXCEPT !.storage = w.storage, !.now = w.now,
                                           !.errorHandlerSetup = FALSE,
                                           !.guardInstalls = 0, !.fx = w.fx]))

(* new PhoenixClient() of a further client in the page of world w: of its    *)
(* construction only the guard is shared with the client of w                 *)
Client_another(w) == setupGlobalErrorHandler(w)

StartFrom(w) ==
    /\ socket = w.socket
    /\ connectionState = w.connectionState
    /\ connectionParams = w.connectionParams
    /\ options = w.options
    /\ lastReconnectTime = w.lastReconnectTime
    /\ storage = w.storage
    /\ socks = w.socks
    /\ timers = w.timers
    /\ waiters = w.waiters
    /\ now = w.now
    /\ cmSocket = w.cmSocket
    /\ channels = w.channels
    /\ channelStates = w.channelStates
    /\ messageListeners = w.messageListeners
    /\ chans = w.chans
    /\ joins = w.joins
    /\ sends = w.sends
    /\ lastForceCall = w.lastForceCall
    /\ emitterListeners = w.emitterListeners
    /\ listenerCounts = w.listenerCounts
    /\ clientConfig = w.clientConfig
    /\ errorHandlerSetup = w.errorHandlerSetup
    /\ guardInstalls = w.guardInstalls
    /\ fx = w.fx

Init == StartFrom(InitWorld)

(* Inputs of connect() *)
P0 == NoParams
P1 == [NoParams EXCEPT !.endpoint = "wss://a/socket",
                       !.params = [k \in {"token"} |-> "abc"]]
P2 == [NoParams EXCEPT !.endpoint = "wss://b/socket"]
P3 == [NoParams EXCEPT !.endpoint = "wss://b/socket",
                       !.params = [k \in {"token", "room"} |-> "xyz"],
                       !.headers = "x-client: 1", !.timeout = "5000"]

-----------------------------------------------------------------------------
(* Actions: public calls *)

Connect(p, ctor) ==
    /\ canConnect(World) =>
          /\ FreeSocks(World) # {}
          /\ connectionState.reconnectAttempts < MaxAttempts
          /\ BagCardinality(waiters) < MaxWaiters
    /\ Commit(Client_connect(Begin("connect", "facade", 0), p, ctor))

Disconnect(closeThrows, leaveThrows) ==
    Commit(Client_disconnect(Begin("disconnect", "facade", 0), closeThrows, leaveThrows))

ResetConnection(closeThrows, leaveThrows) ==
    Commit([Client_resetConnection(Begin("resetConnection", "facade", 0),
                                   closeThrows, leaveThrows)
               EXCEPT !.timers = SurvivingTimers(@)])

ForceReconnect(closeThrows) ==
    /\ BagCardinality(Client_forceReconnect(World, closeThrows).timers) <= MaxTimers
    /\ Commit([Client_forceReconnect(Begin("forceReconnect", "facade", 0), closeThrows)
                  EXCEPT !.lastForceCall = now])

SetLongPollSupport(enabled) ==
    Commit(Client_setLongPollSupport(Begin("setLongPollSupport", "", 0), enabled))

SetWebSocketUrl(url) ==
    Commit(Client_setWebSocketUrl(Begin("setWebSocketUrl", url, 0), url))

SetAuthParams(authParams) ==
    Commit(Client_setAuthParams(Begin("setAuthParams", authParams, 0), authParams))

DisableLongPollFallback ==
    Commit(Client_disableLongPollFallback(Begin("disableLongPollFallback", "", 0)))

ClearConfig ==
    Commit(Client_clearConfig(Begin("clearConfig", "", 0)))

NewClient ==
    Commit(Client_new(Begin("new PhoenixClient", "", 0)))

(* called while no connect of the current manager is suspended and none of *)
(* its timers is pending                                                      *)
SetEnvironment(env) ==
    /\ waiters = EmptyBag /\ timers = EmptyBag
    /\ Commit(Client_setEnvironment(Begin("setEnvironment", env, 0), env))

AnotherClient ==
    Commit(Client_another(Begin("new PhoenixClient", "same page", 0)))

ErrorTexts == {"poll undefined", "poll", "socket"}

ConsoleError(text, closeThrows) ==
    /\ BagCardinality(interceptedConsoleError(World, text, closeThrows).timers) <= MaxTimers
    /\ Commit([interceptedConsoleError(Begin("console.error", text, 0), text, closeThrows)
                  EXCEPT !.lastForceCall =
                      IF text = "poll undefined" THEN now ELSE @])

UnhandledRejection(text, closeThrows) ==
    /\ BagCardinality(onUnhandledRejection(World, text, closeThrows).timers) <= MaxTimers
    /\ Commit([onUnhandledRejection(Begin("unhandledrejection", text, 0), text, closeThrows)
                  EXCEPT !.lastForceCall =
                      IF text \in {"poll", "poll undefined"} THEN now ELSE @])

JoinChannel(topic, rejoin) ==
    /\ FreeChans(World) # {}
    /\ BagCardinality(joinChannel(World, topic, rejoin).joins) <= MaxJoins
    /\ Commit(joinChannel(Begin("joinChannel", "", topic), topic, rejoin))

LeaveChannel(topic, leaveThrows) ==
    Commit(leaveChannel(Begin("leaveChannel", "", topic), topic, leaveThrows))

SendMessage(topic, event) ==
    /\ BagCardinality(sends) < MaxSends
    /\ Commit(sendMessage(Begin("sendMessage", event, topic), topic, event))

OnMessage(topic, event, callback) ==
    /\ \A c \in 1..MaxChans :
          BagCardinality(onMessage(World, topic, event, callback).chans[c].bindings)
              <= MaxBindings
    /\ Commit(onMessage(Begin("onMessage", <<event, callback>>, topic), topic, event, callback))

OffMessage(topic, event, callback, offThrows) ==
    Commit(offMessage(Begin("offMessage", event, topic), topic, event, callback, offThrows))

(* Actions: transport callbacks of a socket *)

SocketOpen(s) ==
    /\ socks[s] \in {"connecting", "closed"}
    /\ Commit(onOpen([Begin("onOpen", "", s) EXCEPT !.socks[s] = "open"]))

SocketClose(s) ==
    /\ socks[s] \in {"connecting", "open"}
    /\ Commit(onClose([Begin("onClose", "", s) EXCEPT !.socks[s] = "closed"]))

SocketError(s, error, closeThrows) ==
    /\ s \in LiveSocks(World)
    /\ BagCardinality(handleSocketError(World, error, closeThrows).timers) <= MaxTimers
    /\ Commit(handleSocketError(Begin("onError", error, s), error, closeThrows))

(* The transport asks for the delay before its reconnect attempt number   *)
(* tries, after it lost its connection                                        *)
ReconnectAfterMs(s, tries) ==
    /\ socks[s] = "closed"
    /\ Commit(Log(Begin("reconnectAfterMs", "manager", tries),
                  "delay", "manager", calculateBackoffDelay(tries)))

(* The same request in the single-class client *)
LegacyReconnectAfterMs(s, tries) ==
    /\ socks[s] = "closed"
    /\ Commit(Log(Begin("reconnectAfterMs", "single-class", tries),
                  "delay", "single-class", getReconnectDelay(tries)))

(* Actions: continuations and timers *)

WaitResolved(wt) ==
    /\ BagIn(wt, waiters)
    /\ ~WaitExpired(World, wt)
    /\ SocketIsConnected(World, socket)
    /\ Commit(waitResolved(Begin("connect resolved", "", 0), wt))

WaitRejected(wt) ==
    /\ BagIn(wt, waiters)
    /\ WaitExpired(World, wt)
    /\ connectionState.reconnectAttempts < MaxAttempts
    /\ Commit(waitRejected(Begin("connect rejected", "", 0), wt))

TimerFired(t, ctor) ==
    /\ BagIn(t, timers)
    /\ now >= t.due
    /\ (connectionParams # <<>> /\ canConnect(World)) =>
          /\ FreeSocks(World) # {}
          /\ connectionState.reconnectAttempts < MaxAttempts
          /\ BagCardinality(waiters) < MaxWaiters
    /\ Commit(reconnectTimer(Begin("timer", t.kind, 0), t, ctor))

Tick ==
    /\ now + TickMs <= MaxTime
    /\ \/ timers # EmptyBag
       \/ waiters # EmptyBag
       \/ now - lastReconnectTime < reconnectThrottleMs
    /\ \A t \in BagToSet(timers) : t.due > now
    /\ \A wt \in BagToSet(waiters) :
          ~WaitExpired(World, wt) /\ ~SocketIsConnected(World, socket)
    /\ Commit([Begin("tick", "", 0) EXCEPT !.now = now + TickMs])

(* Actions: transport callbacks of a channel *)

JoinOk(j) ==
    /\ BagIn(j, joins)
    /\ Commit(joinOk(Begin("join ok", "", j.topic), j))

JoinError(j) ==
    /\ BagIn(j, joins)
    /\ Commit(joinRejected(Begin("join error", "", j.topic), j, "JOIN_ERROR"))

JoinTimeout(j) ==
    /\ BagIn(j, joins)
    /\ Commit(joinRejected(Begin("join timeout", "", j.topic), j, "JOIN_TIMEOUT"))

SendOk(sd) ==
    /\ BagIn(sd, sends)
    /\ sd.topic \in DOMAIN channelStates => channelStates[sd.topic].messageCount < MaxMessages
    /\ Commit(sendOk(Begin("send ok", "", sd.topic), sd))

SendError(sd) ==
    /\ BagIn(sd, sends)
    /\ Commit(sendRejected(Begin("send error", "", sd.topic), sd, "MESSAGE_ERROR"))

SendTimeout(sd) ==
    /\ BagIn(sd, sends)
    /\ Commit(sendRejected(Begin("send timeout", "", sd.topic), sd, "MESSAGE_TIMEOUT"))

ChannelError(c) ==
    /\ chans[c].state \in {"joining", "joined"}
    /\ chans[c].handlers
    /\ Commit(channelOnError([Begin("channel error", "", c) EXCEPT
                                 !.chans[c].state = "errored"], c))

ChannelClose(c) ==
    /\ chans[c].state \in {"joining", "joined", "errored", "leaving"}
    /\ chans[c].handlers
    /\ Commit(channelOnClose([Begin("channel close", "", c) EXCEPT
                                 !.chans[c].state = "closed"], c))

(* Actions: the event bus *)

EventOn(event, handler) ==
    Commit(EventManager_on(Begin("events.on", event, handler), event, handler))

EventOff(event, handler) ==
    Commit(EventManager_off(Begin("events.off", event, handler), event, handler))

EventEmit(event, throwers) ==
    Commit(EventManager_emit(Begin("events.emit", event, 0), event, throwers))

EventClear ==
    Commit(EventManager_clear(Begin("events.clear", "", 0)))

(* The transport delivers a message for an event to a joined channel object, *)
(* which invokes the callbacks bound to it, in ascending order               *)
Invoke(w, c, event) ==
    LET f[i \in 0..NumCallbacks] ==
            IF i = 0 THEN w
            ELSE LET g[n \in 0..CopiesIn(<<event, i>>, w.chans[c].bindings)] ==
                         IF n = 0 THEN f[i - 1] ELSE Log(g[n - 1], "invoke", event, i)
                 IN g[CopiesIn(<<event, i>>, w.chans[c].bindings)]
    IN f[NumCallbacks]

Deliver(c, event) ==
    /\ chans[c].state = "joined"
    /\ Commit(Invoke(Begin("message", event, c), c, event))

-----------------------------------------------------------------------------
(* Specifications *)

SockIds == 1..MaxSockets
ChanIds == 1..MaxChans

(* Spec: the connection manager driven through the facade *)
Next ==
    \/ \E p \in {P0, P1, P2}, ctor \in {"ok", "throws"} : Connect(p, ctor)
    \/ Disconnect(FALSE, FALSE)
    \/ ResetConnection(FALSE, FALSE)
    \/ ForceReconnect(FALSE)
    \/ SetLongPollSupport(TRUE)
    \/ \E s \in SockIds : SocketOpen(s)
    \/ \E s \in SockIds : SocketClose(s)
    \/ \E s \in SockIds, e \in {"poll", "socket"} : SocketError(s, e, FALSE)
    \/ \E wt \in BagToSet(waiters) : WaitResolved(wt)

Spec == Init /\ [][Next]_vars

(* SpecTimed: the connection manager with the clock, its timers and the    *)
(* connectivity polling of waitForConnection                               *)
NextTimed ==
    \/ Connect(P1, "ok")
    \/ ResetConnection(FALSE, FALSE)
    \/ SetLongPollSupport(TRUE)
    \/ \E s \in SockIds : SocketOpen(s)
    \/ \E s \in SockIds : SocketClose(s)
    \/ \E s \in SockIds : SocketError(s, "poll", FALSE)
    \/ \E wt \in BagToSet(waiters) : WaitResolved(wt)
    \/ \E wt \in BagToSet(waiters) : WaitRejected(wt)
    \/ \E t \in BagToSet(timers) : TimerFired(t, "ok")
    \/ Tick

SpecTimed == Init /\ [][NextTimed]_vars

(* SpecClose: disconnect() with and without a handle, the transport's close *)
(* succeeding or throwing                                                   *)
NextClose ==
    \/ \E ctor \in {"ok", "throws"} : Connect(P1, ctor)
    \/ \E ct \in BOOLEAN : Disconnect(ct, FALSE)
    \/ \E s \in SockIds : SocketOpen(s)
    \/ \E s \in SockIds : SocketClose(s)
    \/ \E s \in SockIds : SocketError(s, "socket", FALSE)
    \/ \E wt \in BagToSet(waiters) : WaitResolved(wt)

SpecClose == Init /\ [][NextClose]_vars

(* SpecFail: connect() attempts that fail at once or after the wait *)
NextFail ==
    \/ \E p \in {P0, P1}, ctor \in {"ok", "throws"} : Connect(p, ctor)
    \/ ResetConnection(FALSE, FALSE)
    \/ \E s \in SockIds : SocketOpen(s)
    \/ \E s \in SockIds : SocketClose(s)
    \/ \E wt \in BagToSet(waiters) : WaitResolved(wt)
    \/ \E wt \in BagToSet(waiters) : WaitRejected(wt)
    \/ Tick

SpecFail == Init /\ [][NextFail]_vars

(* SpecReset: reset() among connects, forced reconnects and their timers *)
NextReset ==
    \/ Connect(P1, "ok")
    \/ ResetConnection(FALSE, FALSE)
    \/ ForceReconnect(FALSE)
    \/ \E s \in SockIds : SocketOpen(s)
    \/ \E s \in SockIds : SocketClose(s)
    \/ \E wt \in BagToSet(waiters) : WaitResolved(wt)
    \/ \E t \in BagToSet(timers) : TimerFired(t, "ok")
    \/ Tick

SpecReset == Init /\ [][NextReset]_vars

(* SpecEvents: the event bus under on, off, emit and clear *)
NextEvents ==
    \/ \E e \in Events, h \in Handlers : EventOn(e, h)
    \/ \E e \in Events, h \in Handlers : EventOff(e, h)
    \/ \E e \in Events, th \in SUBSET Handlers : EventEmit(e, th)
    \/ EventClear

SpecEvents == Init /\ [][NextEvents]_vars

(* SpecConfig: the configuration setters, a page reload that constructs a    *)
(* new client over the same session storage, and a connect() that names no   *)
(* endpoint                                                                   *)
NextConfig ==
    \/ SetWebSocketUrl("wss://c/socket")
    \/ \E a \in {NULL, "token=abc"} : SetAuthParams(a)
    \/ \E enabled \in BOOLEAN : SetLongPollSupport(enabled)
    \/ DisableLongPollFallback
    \/ ClearConfig
    \/ NewClient
    \/ Connect(P0, "ok")

SpecConfig == Init /\ [][NextConfig]_vars

(* SpecGuard: the page-wide guard on console.error and unhandled rejections, *)
(* with further clients constructed in the same page                          *)
NextGuard ==
    \/ Connect(P1, "ok")
    \/ SetLongPollSupport(TRUE)
    \/ \E s \in SockIds : SocketOpen(s)
    \/ \E wt \in BagToSet(waiters) : WaitResolved(wt)
    \/ \E s \in SockIds : SocketError(s, "poll", FALSE)
    \/ \E text \in ErrorTexts : ConsoleError(text, FALSE)
    \/ \E text \in ErrorTexts : UnhandledRejection(text, FALSE)
    \/ AnotherClient

SpecGuard == Init /\ [][NextGuard]_vars

(* SpecThrottle: forceReconnect() calls against the clock *)
NextThrottle ==
    \/ Connect(P1, "ok")
    \/ ForceReconnect(FALSE)
    \/ \E s \in SockIds : SocketOpen(s)
    \/ \E wt \in BagToSet(waiters) : WaitResolved(wt)
    \/ \E t \in BagToSet(timers) : TimerFired(t, "ok")
    \/ Tick

SpecThrottle == Init /\ [][NextThrottle]_vars

(* SpecEnv: the public calls that construct and release transports, with    *)
(* setEnvironment                                                             *)
NextEnv ==
    \/ \E p \in {P0, P1} : Connect(p, "ok")
    \/ Disconnect(FALSE, FALSE)
    \/ ResetConnection(FALSE, FALSE)
    \/ ForceReconnect(FALSE)
    \/ SetEnvironment("https://edge")
    \/ \E s \in SockIds : SocketOpen(s)
    \/ \E s \in SockIds : SocketClose(s)
    \/ \E wt \in BagToSet(waiters) : WaitResolved(wt)

SpecEnv == Init /\ [][NextEnv]_vars

(* SpecBackoff: transports that lose their connection and ask for the delay *)
(* before each reconnect attempt                                              *)
NextBackoff ==
    \/ Connect(P1, "ok")
    \/ \E s \in SockIds : SocketOpen(s)
    \/ \E s \in SockIds : SocketClose(s)
    \/ \E s \in SockIds, tries \in 0..MaxTries : ReconnectAfterMs(s, tries)
    \/ \E s \in SockIds, tries \in 0..MaxTries : LegacyReconnectAfterMs(s, tries)

SpecBackoff == Init /\ [][NextBackoff]_vars

(* SpecMerge: successive connect() calls with full and partial params, in a *)
(* page whose session storage works and in one where it does not              *)
InitMerge ==
    \E available \in BOOLEAN :
        StartFrom([InitWorld EXCEPT !.storage.available = available])

NextMerge ==
    \/ \E p \in {P0, P1, P2, P3} : Connect(p, "ok")
    \/ Disconnect(FALSE, FALSE)
    \/ ResetConnection(FALSE, FALSE)
    \/ \E s \in SockIds : SocketOpen(s)
    \/ \E wt \in BagToSet(waiters) : WaitResolved(wt)

SpecMerge == InitMerge /\ [][NextMerge]_vars

(* SpecWait: connect() calls suspended in waitForConnection while the       *)
(* transport never opens, opens late, flaps, or is released and replaced.     *)
(* A call is started only when its polling ends within the modelled time.     *)
(* The clock advances, and the polling callback of a suspended call runs      *)
(* when it is due.                                                            *)
NextWait ==
    \/ now + WaitLimitMs <= MaxTime /\ Connect(P1, "ok")
    \/ Disconnect(FALSE, FALSE)
    \/ \E s \in SockIds : SocketOpen(s)
    \/ \E s \in SockIds : SocketClose(s)
    \/ \E wt \in BagToSet(waiters) : WaitResolved(wt)
    \/ \E wt \in BagToSet(waiters) : WaitRejected(wt)
    \/ Tick

SpecWait ==
    /\ Init /\ [][NextWait]_vars
    /\ SF_vars(Tick)
    /\ WF_vars(\E wt \in BagToSet(waiters) : WaitResolved(wt))
    /\ WF_vars(\E wt \in BagToSet(waiters) : WaitRejected(wt))

(* SpecChan: the channel manager, from a fresh client or from the state the *)
(* client is in once connect(P1) has resolved                               *)
ConnectedWorld ==
    LET a == Client_connect([InitWorld EXCEPT !.fx = <<Fx("connect", "facade", 0)>>], P1, "ok")
        b == onOpen([a EXCEPT !.socks[a.socket] = "open",
                              !.fx = <<Fx("onOpen", "", a.socket)>>])
    IN waitResolved([b EXCEPT !.fx = <<Fx("connect resolved", "", 0)>>],
                    [start |-> StartTime, facade |-> TRUE, attempts |-> 0])

InitChan == StartFrom(ConnectedWorld)

NextChan ==
    \/ \E t \in Topics, rj \in {"throws", "push"} : JoinChannel(t, rj)
    \/ \E j \in BagToSet(joins) : JoinOk(j)
    \/ \E j \in BagToSet(joins) : JoinError(j)
    \/ \E t \in Topics : LeaveChannel(t, FALSE)
    \/ SendMessage(1, "msg")
    \/ \E sd \in BagToSet(sends) : SendOk(sd)
    \/ \E sd \in BagToSet(sends) : SendError(sd)

SpecChan == InitChan /\ [][NextChan]_vars

(* SpecListen: listeners on one topic across join, leave and rejoin, with a  *)
(* leave() of the transport channel that may throw                           *)
FewCallbacks == {cb \in Callbacks : cb < NumCallbacks}

NextListen ==
    \/ \E rj \in {"throws", "push"} : JoinChannel(1, rj)
    \/ \E j \in BagToSet(joins) : JoinOk(j)
    \/ \E lt \in BOOLEAN : LeaveChannel(1, lt)
    \/ \E cb \in FewCallbacks : OnMessage(1, "msg", cb)
    \/ \E cb \in FewCallbacks : OffMessage(1, "msg", cb, FALSE)
    \/ \E c \in ChanIds : ChannelClose(c)
    \/ \E c \in ChanIds : Deliver(c, "msg")

SpecListen == InitChan /\ [][NextListen]_vars

NextCap ==
    \/ JoinChannel(1, "push")
    \/ \E j \in BagToSet(joins) : JoinOk(j)
    \/ LeaveChannel(1, FALSE)
    \/ \E cb \in Callbacks : OnMessage(1, "msg", cb)
    \/ \E cb \in Callbacks : OffMessage(1, "msg", cb, FALSE)
    \/ \E c \in ChanIds : Deliver(c, "msg")

SpecCap == InitChan /\ [][NextCap]_vars

(* SpecJoin: the life of one topic's channel under joins, leaves, cleanup   *)
(* and the transport's join, error and close callbacks                      *)
NextJoin ==
    \/ \E rj \in {"throws", "push"} : JoinChannel(1, rj)
    \/ \E j \in BagToSet(joins) : JoinOk(j)
    \/ \E j \in BagToSet(joins) : JoinError(j)
    \/ \E j \in BagToSet(joins) : JoinTimeout(j)
    \/ LeaveChannel(1, FALSE)
    \/ Disconnect(FALSE, FALSE)
    \/ \E c \in ChanIds : ChannelError(c)
    \/ \E c \in ChanIds : ChannelClose(c)

SpecJoin == InitChan /\ [][NextJoin]_vars

(* SpecSend: sends and their acknowledgments on one topic, among joins,    *)
(* leaves and the facade's disconnect                                        *)
NextSend ==
    \/ JoinChannel(1, "push")
    \/ \E j \in BagToSet(joins) : JoinOk(j)
    \/ LeaveChannel(1, FALSE)
    \/ Disconnect(FALSE, FALSE)
    \/ \E t \in {1, 2} : SendMessage(t, "msg")
    \/ \E sd \in BagToSet(sends) : SendOk(sd)
    \/ \E sd \in BagToSet(sends) : SendError(sd)
    \/ \E sd \in BagToSet(sends) : SendTimeout(sd)

SpecSend == InitChan /\ [][NextSend]_vars

(* SpecClient: every error kind of the client: connect failure, socket      *)
(* errors, join and message failures, capacity                               *)
NextClient ==
    \/ \E ctor \in {"ok", "throws"} : Connect(P1, ctor)
    \/ \E s \in SockIds : SocketOpen(s)
    \/ \E s \in SockIds, e \in {"poll", "socket"} : SocketError(s, e, FALSE)
    \/ \E wt \in BagToSet(waiters) : WaitResolved(wt)
    \/ \E t \in {1, 2} : JoinChannel(t, "push")
    \/ \E j \in BagToSet(joins) : JoinOk(j)
    \/ \E j \in BagToSet(joins) : JoinError(j)
    \/ \E j \in BagToSet(joins) : JoinTimeout(j)
    \/ SendMessage(1, "msg")
    \/ \E sd \in BagToSet(sends) : SendOk(sd)
    \/ \E sd \in BagToSet(sends) : SendError(sd)
    \/ \E sd \in BagToSet(sends) : SendTimeout(sd)

SpecClient == Init /\ [][NextClient]_vars

(* SpecRelease: every way the connection manager releases its transport,    *)
(* with a channel held by the channel manager                                *)
NextRelease ==
    \/ Connect(P1, "ok")
    \/ \E s \in SockIds : SocketOpen(s)
    \/ \E wt \in BagToSet(waiters) : WaitResolved(wt)
    \/ JoinChannel(1, "push")
    \/ \E j \in BagToSet(joins) : JoinOk(j)
    \/ Disconnect(FALSE, FALSE)
    \/ ResetConnection(FALSE, FALSE)
    \/ ForceReconnect(FALSE)
    \/ \E s \in SockIds : SocketError(s, "poll", FALSE)

SpecRelease == Init /\ [][NextRelease]_vars

-----------------------------------------------------------------------------
(* Reading the effect log of a macrotask *)


Joined(t) == t \in DOMAIN channels /\ chans[channels[t]].state = "joined"
Pending(t) == \E j \in BagToSet(joins) : j.topic = t

-----------------------------------------------------------------------------
(* C1 - Idempotent join: a joinChannel(t) issued while an earlier join of t  *)
(* is still pending, or while t is joined, creates no channel object and    *)
(* does not fail: it resolves to the channel already held for t.            *)
C1_Step ==
    \A t \in Topics :
        (Entered(fx', "joinChannel") /\ fx'[1].n = t /\ (Joined(t) \/ Pending(t)))
            => (~Did(fx', "throw") /\ ~Did(fx', "socket.channel"))

C1_IdempotentJoin == [][C1_Step]_vars

(* C2 - Capacity bound: the registry never holds more than maxChannels       *)
(* channels, and a joinChannel made when it holds maxChannels rejects with   *)
(* MAX_CHANNELS_EXCEEDED and creates nothing.                                *)
C2_Step ==
    (Entered(fx', "joinChannel") /\ Cardinality(DOMAIN channels) >= maxChannels)
        => /\ fx' = <<fx'[1], Fx("throw", "MAX_CHANNELS_EXCEEDED", fx'[1].n)>>
           /\ channels' = channels
           /\ chans' = chans
           /\ joins' = joins

C2_CapacityBound ==
    /\ [](Cardinality(DOMAIN channels) <= maxChannels)
    /\ [][C2_Step]_vars

C2_Witness ==
    /\ Entered(fx, "joinChannel")
    /\ DidWith(fx, "throw", "MAX_CHANNELS_EXCEEDED")
    /\ Cardinality({t \in Topics : Joined(t)}) = maxChannels
    /\ fx[1].n \notin DOMAIN channels

(* C3 - Send before join: a sendMessage(t) made while t is still joining is  *)
(* rejected with CHANNEL_NOT_FOUND and pushes nothing; a send on t resolves  *)
(* only once a join of t has resolved.                                       *)
C3_SendBeforeJoin ==
    \A t \in Topics :
        /\ (Entered(fx, "sendMessage") /\ fx[1].n = t
               /\ t \in DOMAIN channelStates /\ channelStates[t].status = "joining")
             => (DidWith(fx, "throw", "CHANNEL_NOT_FOUND") /\ ~Did(fx, "channel.push"))
        /\ (Entered(fx, "send ok") /\ fx[1].n = t)
             => (t \in DOMAIN channelStates /\ channelStates[t].lastJoined # NoTime)

(* C4 - Param-change reconnect: a connect made while connected (a) with    *)
(* effective params that differ from the last connect's disconnects the     *)
(* current transport and starts a new attempt, (b) with identical effective *)
(* params returns the existing handle and disconnects nothing.              *)
NewSocketMade(log) == Did(log, "new Socket WebSocket") \/ Did(log, "new Socket LongPoll")

C4_Step ==
    \A p \in {P0, P1, P2}, ctor \in {"ok", "throws"} :
        (connectionState.status = "connected" /\ Connect(p, ctor))
            => IF connectionParams = <<>>
                  \/ mergeConnectionParams(World, p) # connectionParams[1]
               THEN Did(fx', "socket.disconnect") /\ DidWith(fx', "state", "connecting")
               ELSE /\ fx' = <<fx'[1], Fx("return", "socket", socket)>>
                    /\ socket' = socket

C4_ParamChangeReconnect == [][C4_Step]_vars

(* C5 - Single in-flight connect: no transport is constructed while an       *)
(* earlier connect call is still waiting for its connection on a transport   *)
(* that was never disconnected, and a connect made while status is           *)
(* connecting returns the handle of the attempt in progress.                 *)
C5_SingleInFlight ==
    /\ NewSocketMade(fx)
         => ~(/\ BagCardinality(waiters) > 1
              /\ \E s \in LiveSocks(World) : s # socket)
    /\ (Entered(fx, "connect") /\ connectionState.status = "connecting"
           /\ ~Did(fx, "state"))
         => fx = <<fx[1], Fx("return", "socket", socket)>>

(* C6 - Poll-status recovery: the error callback for an 'unhandled poll      *)
(* status' error sets useLongPoll to false, passes through status            *)
(* reconnecting, releases the transport handle (disconnecting the transport  *)
(* it held) and schedules a timer for the fixed delay; the timer's callback, *)
(* which runs no earlier than that delay, issues a connect with the stored   *)
(* connection params; neither step increments reconnectAttempts, unless the  *)
(* connect issued by the timer itself fails.                                 *)
C6_Step ==
    /\ (Entered(fx', "onError") /\ fx'[1].v = "poll")
         => /\ options'.config.useLongPoll = FALSE
            /\ storage'.config # <<>> /\ storage'.config[1].useLongPoll = FALSE
            /\ DidWith(fx', "state", "reconnecting")
            /\ socket' = NoSock
            /\ socket # NoSock => socks'[socket] = "disconnected"
            /\ connectionState'.reconnectAttempts = connectionState.reconnectAttempts
            /\ connectionState'.status # "error"
            /\ BagIn(Timer("poll", now + PollRecoveryDelayMs), timers')
    /\ (Entered(fx', "timer") /\ fx'[1].v = "poll")
         => /\ \E t \in BagToSet(timers) :
                  t.kind = "poll" /\ t.due <= now /\ timers' = BagDel(timers, t)
            /\ IF connectionParams # <<>>
               THEN /\ DidWith(fx', "connect", "stored")
                    /\ connectionParams' = connectionParams
                    /\ NewSocketMade(fx') =>
                          LET url == buildSocketUrl(World, connectionParams[1])
                          IN \/ DidWith(fx', "new Socket WebSocket", url)
                             \/ DidWith(fx', "new Socket LongPoll", url)
                    /\ \/ connectionState'.reconnectAttempts
                             = connectionState.reconnectAttempts
                       \/ Did(fx', "throw")
               ELSE ~Did(fx', "connect") /\ ~NewSocketMade(fx')

C6_PollStatusRecovery == [][C6_Step]_vars

(* A recovery that ran to its reconnect: the poll timer fired and built a    *)
(* WebSocket transport for the stored params, with reconnectAttempts at 0    *)
C6_Witness ==
    /\ Entered(fx, "timer") /\ fx[1].v = "poll"
    /\ DidWith(fx, "new Socket WebSocket", "wss://a/socket")
    /\ storage.config # <<>> /\ storage.config[1].useLongPoll = FALSE
    /\ connectionState.status = "connecting"
    /\ connectionState.reconnectAttempts = 0

(* C7 - Error events: handling a poll-status fault emits no error event and *)
(* never sets status error; a failed connect and a socket error emit the     *)
(* generic phoenix_error event; a join error or join timeout emits           *)
(* phoenix_channel_error and not phoenix_error; a message error, a message   *)
(* timeout and a join refused for capacity emit no event at all.             *)
Threw(log, codes) == \E i \in 1..Len(log) : log[i].k = "throw" /\ log[i].v \in codes

ConnectFailures == {"NO_URL", "CONSTRUCT", "WAIT_LIMIT"}
JoinFailures == {"JOIN_ERROR", "JOIN_TIMEOUT"}
SilentFailures == {"MESSAGE_ERROR", "MESSAGE_TIMEOUT", "MAX_CHANNELS_EXCEEDED"}

C7_ErrorEvents ==
    /\ (Entered(fx, "onError") /\ fx[1].v = "poll")
         => /\ ~Did(fx, "emit")
            /\ ~DidWith(fx, "state", "error")
            /\ connectionState.status # "error"
    /\ (Entered(fx, "onError") /\ fx[1].v = "socket")
         => DidWith(fx, "emit", "phoenix_error")
    /\ Threw(fx, ConnectFailures) => DidWith(fx, "emit", "phoenix_error")
    /\ Threw(fx, JoinFailures)
         => /\ DidWith(fx, "emit", "phoenix_channel_error")
            /\ ~DidWith(fx, "emit", "phoenix_error")
    /\ Threw(fx, SilentFailures) => ~Did(fx, "emit")

(* A poll-status fault handled on a held transport, after a join of some     *)
(* topic has failed                                                          *)
C7_Witness ==
    /\ Entered(fx, "onError") /\ fx[1].v = "poll"
    /\ Did(fx, "socket.disconnect")
    /\ \E t \in DOMAIN channelStates : channelStates[t].status = "error"

(* C7 as stated: no error event for a poll-status fault, and an error event *)
(* (generic or channel) for every other error kind *)
C7_EveryOtherKindEmits ==
    /\ (Entered(fx, "onError") /\ fx[1].v = "poll")
         => ~DidWith(fx, "emit", "phoenix_error") /\ connectionState.status # "error"
    /\ \/ Entered(fx, "onError") /\ fx[1].v = "socket"
       \/ Threw(fx, ConnectFailures \cup JoinFailures \cup SilentFailures)
       => \/ DidWith(fx, "emit", "phoenix_error")
          \/ DidWith(fx, "emit", "phoenix_channel_error")

(* C8 - Reconnect throttling: a forceReconnect() made less than the         *)
(* throttle window after the latest forceReconnect() that was not throttled  *)
(* changes no state and schedules nothing; one made at least a window after  *)
(* it disconnects, resets reconnectAttempts and schedules the reconnect.     *)
C8_Step ==
    Entered(fx', "forceReconnect")
        => IF now - lastReconnectTime < reconnectThrottleMs
           THEN /\ fx' = <<fx'[1], Fx("warn", "throttled", 0)>>
                /\ UNCHANGED <<socket, connectionState, connectionParams, options,
                               lastReconnectTime, storage, socks, timers, waiters, now,
                               cmSocket, channels, channelStates, messageListeners,
                               chans, joins, sends>>
           ELSE /\ lastReconnectTime' = now
                /\ socket' = NoSock
                /\ socket # NoSock => socks'[socket] = "disconnected"
                /\ connectionState'.reconnectAttempts = 0
                /\ timers' = BagAdd(timers, Timer("force", now + ForceReconnectDelayMs))

C8_AnyTwoCalls_Step ==
    (Entered(fx', "forceReconnect") /\ lastForceCall # NoTime
        /\ now - lastForceCall < reconnectThrottleMs)
        => /\ ~Did(fx', "setTimeout")
           /\ ~Did(fx', "socket.disconnect")
           /\ UNCHANGED <<socket, connectionState, lastReconnectTime, timers>>

C9_CleanupBeforeRelease ==
    /\ \A j \in 1..Len(fx) :
           fx[j].k = "release" => \E i \in 1..(j - 1) : fx[i].k = "cleanup"
    /\ Did(fx, "release") => (DOMAIN channels = {} /\ cmSocket = NoSock)

(* C10 - Leave clears listeners: a leaveChannel(t) on an existing channel   *)
(* removes t from the channel registry and from the listener registry, sets  *)
(* ChannelState(t) to disconnected with lastLeft set and emits the leave     *)
(* event; and a message invokes only callbacks that are registered for its   *)
(* topic and event at that time, never one dropped by a leave.               *)
C10_LeaveClearsListeners ==
    /\ \A t \in Topics :
           (Entered(fx, "leaveChannel") /\ fx[1].n = t /\ Did(fx, "channel.leave"))
               => /\ t \notin DOMAIN channels
                  /\ t \notin DOMAIN messageListeners
                  /\ t \in DOMAIN channelStates
                  /\ channelStates[t].status = "disconnected"
                  /\ channelStates[t].lastLeft # NoTime
                  /\ DidWith(fx, "emit", "phoenix_channel_leave")
    /\ Entered(fx, "message")
         => LET t == chans[fx[1].n].topic
            IN \A i \in 2..Len(fx) :
                  fx[i].k = "invoke"
                      => /\ t \in DOMAIN messageListeners
                         /\ fx[i].v \in DOMAIN messageListeners[t]
                         /\ fx[i].n \in messageListeners[t][fx[i].v]

(* C11 - Listener cap and de-duplication: every (topic, event) pair holds   *)
(* at most maxListenersPerEvent callbacks; registering a callback that is    *)
(* already registered changes neither the listener registry nor the          *)
(* transport channel and installs no second transport listener, so a message *)
(* on the topic's channel invokes each registered callback once; registering *)
(* a new callback at the cap is dropped with a warning, installs nothing,    *)
(* and that callback is not invoked by later messages.                       *)
Listeners(t, e) ==
    IF t \in DOMAIN messageListeners /\ e \in DOMAIN messageListeners[t]
    THEN messageListeners[t][e] ELSE {}

C11_Step ==
    \A cb \in Callbacks :
        (1 \in DOMAIN channels /\ OnMessage(1, "msg", cb))
            => /\ cb \in Listeners(1, "msg")
                   => /\ Listeners(1, "msg")' = Listeners(1, "msg")
                      /\ chans' = chans
                      /\ ~Did(fx', "channel.on")
               /\ (cb \notin Listeners(1, "msg")
                      /\ Cardinality(Listeners(1, "msg")) >= maxListenersPerEvent)
                   => /\ Listeners(1, "msg")' = Listeners(1, "msg")
                      /\ chans' = chans
                      /\ ~Did(fx', "channel.on")
                      /\ DidWith(fx', "warn", "max listeners")

C11_Cap ==
    /\ \A t \in DOMAIN messageListeners : \A e \in DOMAIN messageListeners[t] :
           Cardinality(messageListeners[t][e]) <= maxListenersPerEvent
    /\ \A t \in DOMAIN channels : \A cb \in Callbacks :
           /\ CopiesIn(<<"msg", cb>>, chans[channels[t]].bindings) <= 1
           /\ CopiesIn(<<"msg", cb>>, chans[channels[t]].bindings) = 1
                  => cb \in Listeners(t, "msg")
    /\ (Entered(fx, "message") /\ 1 \in DOMAIN channels /\ channels[1] = fx[1].n)
           => \A cb \in Callbacks :
                 Cardinality({i \in 2..Len(fx) : fx[i].k = "invoke" /\ fx[i].n = cb})
                     = IF cb \in Listeners(1, "msg") THEN 1 ELSE 0

C12_Step ==
    \A t \in Topics :
        (Entered(fx', "joinChannel") /\ fx'[1].n = t /\ cmSocket # NoSock
            /\ Joined(t) /\ channelStates[t].status = "joined")
            => /\ fx' = <<fx'[1], Fx("return", "channel", channels[t])>>
               /\ channelStates' = channelStates
               /\ channels' = channels
               /\ chans' = chans
               /\ joins' = joins

C12_JoinedJoinIsRead == [][C12_Step]_vars

(* C13 - Connect failure: whenever a connect attempt fails (no resolvable   *)
(* URL, the transport constructor throws, or the wait for the transport to   *)
(* report connected runs out), the call rejects with the error, status       *)
(* becomes error, the error is recorded in ConnectionState, and              *)
(* reconnectAttempts is one more than it was when the failure was handled.   *)
C13_Step ==
    Threw(fx', ConnectFailures)
        => /\ connectionState'.status = "error"
           /\ connectionState'.error \in ConnectFailures
           /\ Threw(fx', {connectionState'.error})
           /\ connectionState'.reconnectAttempts = connectionState.reconnectAttempts + 1

C13_BeforeCall_Step ==
    /\ (Entered(fx', "connect") /\ Threw(fx', ConnectFailures))
          => connectionState'.reconnectAttempts = connectionState.reconnectAttempts + 1
    /\ \A wt \in BagToSet(waiters) :
          WaitRejected(wt) => connectionState'.reconnectAttempts = wt.attempts + 1

C14_Step ==
    Entered(fx', "disconnect")
        => IF socket = NoSock
           THEN /\ connectionState' = connectionState
                /\ socket' = NoSock
                /\ socks' = socks
                /\ timers' = timers
                /\ ~Did(fx', "state")
                /\ ~Did(fx', "emit")
                /\ ~Did(fx', "socket.disconnect")
           ELSE /\ \E i \in 1..Len(fx') :
                      fx'[i].k = "socket.disconnect" /\ fx'[i].n = socket
                /\ socket' = NoSock
                /\ ~Did(fx', "throw")
                /\ connectionState'.status = "disconnected"
                /\ connectionState'.lastDisconnected = NewDate
                /\ connectionState'.reconnectAttempts = connectionState.reconnectAttempts
                /\ connectionState'.lastConnected = connectionState.lastConnected

C15_ConnectedInvariant ==
    /\ connectionState.status = "connected"
          => (socket # NoSock /\ SocketIsConnected(World, socket))
    /\ isConnected(World) <=> connectionState.status = "connected"

(* C16 - canConnect() is true exactly when status is disconnected or error: *)
(* a connect() call goes past its guard (sets status connecting) exactly in  *)
(* those two statuses and otherwise returns the held handle and changes      *)
(* nothing; a freshly constructed client has status disconnected,            *)
(* canConnect() true and isConnected() false.                                *)
C16_Step ==
    Entered(fx', "connect")
        => IF connectionState.status \in {"disconnected", "error"}
           THEN Len(fx') >= 2 /\ fx'[2] = Fx("state", "connecting", 0)
           ELSE /\ fx' = <<fx'[1], Fx("return", "socket", socket)>>
                /\ connectionState' = connectionState
                /\ socket' = socket
                /\ socks' = socks

C16_Fresh ==
    fx = <<>> => /\ connectionState.status = "disconnected"
                 /\ canConnect(World)
                 /\ ~isConnected(World)

StatusTrail ==
    LET st == SelectSeq(fx', LAMBDA e : e.k = "state")
    IN <<connectionState.status>> \o [i \in 1..Len(st) |-> st[i].v]
           \o <<connectionState'.status>>

StatusChanges ==
    {<<StatusTrail[i], StatusTrail[i + 1]>> : i \in 1..(Len(StatusTrail) - 1)}
        \ {<<s, s>> : s \in {"disconnected", "connecting", "connected",
                             "reconnecting", "error"}}

ClaimedChanges ==
    {<<"disconnected", "connecting">>, <<"connecting", "connected">>,
     <<"connected", "reconnecting">>, <<"reconnecting", "connected">>,
     <<"reconnecting", "disconnected">>, <<"error", "disconnected">>,
     <<"error", "connecting">>}
        \cup {<<s, "error">> : s \in {"disconnected", "connecting", "connected",
                                       "reconnecting"}}

(* C17 as stated: every change of status is one of disconnected->connecting, *)
(* connecting->connected, connected->reconnecting, reconnecting->connected,  *)
(* reconnecting->disconnected, any->error, error->disconnected,              *)
(* error->connecting; the initial status is disconnected.                    *)
C17_ClaimedMachine ==
    /\ [](fx = <<>> => connectionState.status = "disconnected")
    /\ [][StatusChanges \subseteq ClaimedChanges]_vars

(* C17, amended - Connection state machine: the initial status is          *)
(* disconnected; status becomes connecting only from disconnected or error;  *)
(* it becomes connected only in a transport's open callback; it becomes      *)
(* reconnecting from connected when the transport closes and from any status *)
(* in the poll-status recovery; it becomes disconnected from any status      *)
(* (disconnect, reset, forceReconnect, recovery, or a close while            *)
(* connecting); and any status can become error.                             *)
C17_Step ==
    \A ch \in StatusChanges :
        /\ ch[2] = "connecting" => ch[1] \in {"disconnected", "error"}
        /\ ch[2] = "connected" => Entered(fx', "onOpen")
        /\ ch[2] = "reconnecting"
              => \/ Entered(fx', "onClose") /\ ch[1] = "connected"
                 \/ Entered(fx', "onError") /\ fx'[1].v = "poll"
        /\ ch[2] = "disconnected"
              => \/ Did(fx', "release")
                 \/ Entered(fx', "resetConnection")
                 \/ Entered(fx', "onClose") /\ ch[1] = "connecting"
        /\ ch[2] = "error"
              => \/ Threw(fx', ConnectFailures)
                 \/ Entered(fx', "onError") /\ fx'[1].v = "socket"

C17_StateMachine ==
    /\ [](fx = <<>> => connectionState.status = "disconnected")
    /\ [][C17_Step]_vars

C17_Witness ==
    /\ Entered(fx, "onClose")
    /\ DidWith(fx, "state", "disconnected")
    /\ connectionState.status = "disconnected"
    /\ socket # NoSock

(* The statuses ChannelState(t).status goes through in one step; a topic  *)
(* without a ChannelState counts as disconnected                            *)
ChannelStatusOf(cs, t) == IF t \in DOMAIN cs THEN cs[t].status ELSE "disconnected"

ChannelTrail(t) ==
    LET st == SelectSeq(fx', LAMBDA e : e.k = "channel state" /\ e.n = t)
    IN <<ChannelStatusOf(channelStates, t)>> \o [i \in 1..Len(st) |-> st[i].v]
           \o <<ChannelStatusOf(channelStates', t)>>

ChannelChanges(t) ==
    {<<ChannelTrail(t)[i], ChannelTrail(t)[i + 1]>> : i \in 1..(Len(ChannelTrail(t)) - 1)}
        \ {<<s, s>> : s \in {"disconnected", "joining", "joined", "error"}}

ClaimedChannelChanges ==
    {<<"disconnected", "joining">>, <<"joining", "joined">>, <<"joining", "error">>,
     <<"joined", "disconnected">>, <<"error", "joining">>}

(* C18 - Channel state machine: every change of a ChannelState.status is   *)
(* one of disconnected->joining, joining->joined, joining->error,            *)
(* joined->disconnected, error->joining; a topic's first status is joining,  *)
(* entered from the implicit disconnected.                                   *)
C18_ChannelMachine ==
    [][\A t \in Topics : ChannelChanges(t) \subseteq ClaimedChannelChanges]_vars

(* C18, amended - Channel state machine: ChannelState(t).status becomes    *)
(* joining only in joinChannel(t); joined only when an ok join ack for t     *)
(* arrives; error only when a join of t fails (at the call, by an error ack  *)
(* or a timeout) or the transport reports a channel error; disconnected only *)
(* in leaveChannel(t), in cleanup, or when the transport reports the channel *)
(* closed; each of these happens from whatever the status was.               *)
C18_Step ==
    \A t \in Topics : \A ch \in ChannelChanges(t) :
        /\ ch[2] = "joining" => (Entered(fx', "joinChannel") /\ fx'[1].n = t)
        /\ ch[2] = "joined" => (Entered(fx', "join ok") /\ fx'[1].n = t)
        /\ ch[2] = "error"
              => \/ Entered(fx', "joinChannel") /\ fx'[1].n = t /\ Did(fx', "throw")
                 \/ fx'[1].k \in {"join error", "join timeout"} /\ fx'[1].n = t
                 \/ Entered(fx', "channel error") /\ chans[fx'[1].n].topic = t
        /\ ch[2] = "disconnected"
              => \/ Entered(fx', "leaveChannel") /\ fx'[1].n = t
                 \/ Entered(fx', "disconnect") /\ Did(fx', "cleanup")
                 \/ Entered(fx', "channel close") /\ chans[fx'[1].n].topic = t

C18_ChannelStateMachine == [][C18_Step]_vars

C18_Witness ==
    /\ Entered(fx, "leaveChannel")
    /\ DidWith(fx, "channel state", "disconnected")
    /\ Pending(fx[1].n)
    /\ channelStates[fx[1].n].status = "disconnected"
    /\ channelStates[fx[1].n].lastJoined = NoTime

(* C19 - Reset: after resetConnection() ConnectionState equals its initial *)
(* value, no transport handle is held, the last-used connection params are   *)
(* cleared in memory and in storage, and a reconnect timer that was set      *)
(* before the reset starts no connection when it fires afterwards.           *)
C19_Step ==
    /\ Entered(fx', "resetConnection")
          => /\ connectionState' = InitialConnectionState
             /\ socket' = NoSock
             /\ connectionParams' = <<>>
             /\ storage'.params = <<>>
    /\ \A t \in BagToSet(timers) :
          (t.survivedReset /\ TimerFired(t, "ok")) => ~NewSocketMade(fx')

C19_Reset == [][C19_Step]_vars

(* C20 - Force reconnect completes: a forceReconnect() that is not         *)
(* throttled, made with last-used connection params present, leaves no       *)
(* transport handle and a disconnected transport, sets reconnectAttempts to  *)
(* 0, and sets a timer whose callback, when it runs after the fixed delay    *)
(* with nothing else having happened, constructs a transport for the URL of  *)
(* the stored params, whatever the status was at the call.                   *)
(* The world when the delay has passed and nothing else has happened; the  *)
(* slots of transports that were disconnected and released are free again    *)
ForceDelayPassed ==
    [World EXCEPT !.now = now + ForceReconnectDelayMs, !.fx = <<>>,
                  !.socks = [i \in 1..MaxSockets |->
                                IF socks[i] = "disconnected" /\ socket # i
                                THEN NoTransport ELSE socks[i]]]

AfterForceDelay ==
    reconnectTimer(ForceDelayPassed, Timer("force", now + ForceReconnectDelayMs), "ok")

C20_Step ==
    (Entered(fx', "forceReconnect")
        /\ now - lastReconnectTime >= reconnectThrottleMs
        /\ connectionParams # <<>>)
        => /\ socket' = NoSock
           /\ socket # NoSock => socks'[socket] = "disconnected"
           /\ connectionState'.reconnectAttempts = 0
           /\ BagIn(Timer("force", now + ForceReconnectDelayMs), timers')
           /\ FreeSocks(ForceDelayPassed') # {}
                 => \E i \in 1..Len(AfterForceDelay'.fx) :
                       /\ AfterForceDelay'.fx[i].k
                              \in {"new Socket WebSocket", "new Socket LongPoll"}
                       /\ AfterForceDelay'.fx[i].v
                              = buildSocketUrl(World, connectionParams[1])

C20_ForceReconnectCompletes == [][C20_Step]_vars

(* C21 - Event emission: emit(event, data) invokes every handler that is   *)
(* registered for the event at that time exactly once, in registration       *)
(* order, within the call; a handler that throws does not keep the handlers  *)
(* after it from running and its exception does not reach emit's caller.     *)
InvokedHandlers(log) ==
    LET calls == SelectSeq(log, LAMBDA e : e.k = "handler")
    IN [i \in 1..Len(calls) |-> calls[i].n]

C21_Step ==
    Entered(fx', "events.emit")
        => /\ InvokedHandlers(fx') = HandlersOf(World, fx'[1].v)
           /\ \A i \in 2..Len(fx') : fx'[i].k = "handler" => fx'[i].v = fx'[1].v
           /\ ~Did(fx', "throw")
           /\ emitterListeners' = emitterListeners
           /\ listenerCounts' = listenerCounts

C21_EventEmission == [][C21_Step]_vars

C21_Witness ==
    /\ Entered(fx, "events.emit")
    /\ Len(HandlersOf(World, fx[1].v)) >= 2
    /\ \E i \in 2..Len(fx) :
          /\ fx[i].k = "console.error"
          /\ \E j \in (i + 1)..Len(fx) : fx[j].k = "handler"
    /\ HandlersOf(World, fx[1].v)[1] > HandlersOf(World, fx[1].v)[2]

(* C22 - Event-bus cap: after any sequence of on and off calls, including  *)
(* off for a handler that was never registered and on for one that already   *)
(* is, no event has more than the cap of handlers registered, and an on made *)
(* when the event has the cap of handlers registers nothing.                 *)
C22_Step ==
    (Entered(fx', "events.on")
        /\ Len(HandlersOf(World, fx'[1].v)) >= eventMaxListenersPerEvent)
        => emitterListeners' = emitterListeners

C22_EventCap ==
    /\ [](\A e \in Events : Len(HandlersOf(World, e)) <= eventMaxListenersPerEvent)
    /\ [][C22_Step]_vars

(* C23 - Event-bus statistics: totalListeners equals the number of handlers *)
(* registered across all events, and eventsWithListeners equals the number   *)
(* of events that have at least one handler registered.                      *)
RegisteredTotal ==
    SumOf([e \in DOMAIN emitterListeners |-> Len(emitterListeners[e])])

C23_EventStats ==
    /\ getResourceStats(World).totalListeners = RegisteredTotal
    /\ getResourceStats(World).eventsWithListeners
           = Cardinality({e \in Events : HandlersOf(World, e) # <<>>})

(* C24 - Send outcomes and message counter: for a send on an existing      *)
(* channel, ack ok resolves the call with the response and increases the     *)
(* messageCount of the topic's ChannelState by exactly 1 (a topic whose      *)
(* ChannelState was deleted by cleanup has no counter and nothing changes);  *)
(* ack error rejects with MESSAGE_ERROR and ack timeout with                 *)
(* MESSAGE_TIMEOUT, both leaving every ChannelState unchanged; while a       *)
(* ChannelState exists its messageCount changes in no other step, so it      *)
(* never decreases and equals the number of ok-acknowledged sends.           *)
C24_Step ==
    /\ \A sd \in BagToSet(sends) :
          /\ SendOk(sd)
                => /\ fx' = <<fx'[1], Fx("return", "response", sd.topic)>>
                   /\ sd.topic \in DOMAIN channelStates
                         => channelStates'[sd.topic].messageCount
                               = channelStates[sd.topic].messageCount + 1
                   /\ sd.topic \notin DOMAIN channelStates
                         => channelStates' = channelStates
          /\ SendError(sd)
                => /\ fx' = <<fx'[1], Fx("throw", "MESSAGE_ERROR", sd.topic)>>
                   /\ channelStates' = channelStates
          /\ SendTimeout(sd)
                => /\ fx' = <<fx'[1], Fx("throw", "MESSAGE_TIMEOUT", sd.topic)>>
                   /\ channelStates' = channelStates
    /\ \A t \in (DOMAIN channelStates) \cap (DOMAIN channelStates') :
          channelStates'[t].messageCount # channelStates[t].messageCount
              => (Entered(fx', "send ok") /\ fx'[1].n = t)

C25_Step ==
    (Entered(fx', "sendMessage") /\ fx'[1].n \notin DOMAIN channels)
        => /\ fx' = <<fx'[1], Fx("throw", "CHANNEL_NOT_FOUND", fx'[1].n)>>
           /\ sends' = sends
           /\ channelStates' = channelStates
           /\ channels' = channels
           /\ messageListeners' = messageListeners
           /\ chans' = chans

C25_SendUnknownTopic == [][C25_Step]_vars

C25_Witness ==
    /\ Entered(fx, "sendMessage")
    /\ DidWith(fx, "throw", "CHANNEL_NOT_FOUND")
    /\ fx[1].n \notin DOMAIN channels
    /\ fx[1].n \in DOMAIN channelStates
    /\ channelStates[fx[1].n].messageCount = MaxMessages

(* C26 - Join without a connection: a joinChannel(t) made while the client  *)
(* holds no transport (never connected, or after disconnect and before the   *)
(* next connect) fails with SOCKET_NOT_CONNECTED and creates no channel      *)
(* object and no ChannelState for t.                                         *)
C26_Step ==
    (Entered(fx', "joinChannel") /\ socket = NoSock)
        => /\ fx' = <<fx'[1], Fx("throw", "SOCKET_NOT_CONNECTED", fx'[1].n)>>
           /\ channels' = channels
           /\ channelStates' = channelStates
           /\ chans' = chans

C26_JoinWithoutConnection == [][C26_Step]_vars

(* C27 - Leave of an unknown topic is a no-op: a leaveChannel(t) for a     *)
(* topic with no channel in the registry does not throw, emits no event and  *)
(* leaves channels, ChannelStates and listener registries as they were.      *)
C27_Step ==
    (Entered(fx', "leaveChannel") /\ fx'[1].n \notin DOMAIN channels)
        => /\ Len(fx') = 1
           /\ channels' = channels
           /\ channelStates' = channelStates
           /\ messageListeners' = messageListeners
           /\ chans' = chans
           /\ joins' = joins

C27_LeaveUnknownTopic == [][C27_Step]_vars

C27_Witness ==
    /\ Entered(fx, "leaveChannel")
    /\ Len(fx) = 1
    /\ fx[1].n \notin DOMAIN channels
    /\ fx[1].n \in DOMAIN channelStates
    /\ channelStates[fx[1].n].status = "joined"

(* C28 - Join outcomes: a joinChannel(t) that issues a join request ends in *)
(* exactly one of three outcomes. An ok acknowledgement resolves, sets        *)
(* ChannelState(t) to joined with lastJoined set and the error cleared, and   *)
(* emits channel-join; an explicit join failure rejects with JOIN_ERROR and a *)
(* timeout rejects with the distinct JOIN_TIMEOUT, each setting               *)
(* ChannelState(t) to error with the error recorded and emitting              *)
(* channel-error.                                                             *)
JoinFailureOutcome(log, topic, code) ==
    /\ channelStates'[topic].status = "error"
    /\ channelStates'[topic].error = code
    /\ \E i \in 1..Len(log) :
          log[i].k = "emit" /\ log[i].v = "phoenix_channel_error" /\ log[i].n = topic
    /\ \E i \in 1..Len(log) : log[i].k = "throw" /\ log[i].v = code
    /\ ~Did(log, "return")
    /\ ~DidWith(log, "emit", "phoenix_channel_join")

C28_Step ==
    /\ (Entered(fx', "joinChannel") /\ Did(fx', "channel.join"))
          => /\ BagCardinality(joins') = BagCardinality(joins) + 1
             /\ ~Did(fx', "return") /\ ~Did(fx', "throw") /\ ~Did(fx', "emit")
    /\ Entered(fx', "join ok")
          => /\ BagCardinality(joins') = BagCardinality(joins) - 1
             /\ channelStates'[fx'[1].n].status = "joined"
             /\ channelStates'[fx'[1].n].lastJoined # NoTime
             /\ channelStates'[fx'[1].n].error = NULL
             /\ \E i \in 1..Len(fx') :
                   /\ fx'[i].k = "emit" /\ fx'[i].v = "phoenix_channel_join"
                   /\ fx'[i].n = fx'[1].n
             /\ Did(fx', "return")
             /\ ~Did(fx', "throw")
             /\ ~DidWith(fx', "emit", "phoenix_channel_error")
    /\ Entered(fx', "join error")
          => /\ BagCardinality(joins') = BagCardinality(joins) - 1
             /\ JoinFailureOutcome(fx', fx'[1].n, "JOIN_ERROR")
    /\ Entered(fx', "join timeout")
          => /\ BagCardinality(joins') = BagCardinality(joins) - 1
             /\ JoinFailureOutcome(fx', fx'[1].n, "JOIN_TIMEOUT")
    /\ BagCardinality(joins') < BagCardinality(joins)
          => \/ Entered(fx', "join ok")
             \/ Entered(fx', "join error")
             \/ Entered(fx', "join timeout")

ConfigSetters ==
    {"setWebSocketUrl", "setAuthParams", "setLongPollSupport", "disableLongPollFallback"}

C29_Step ==
    /\ (fx' # <<>> /\ fx'[1].k \in ConfigSetters)
          => storage'.config = <<getConfig(World')>>
    /\ (Entered(fx', "new PhoenixClient") /\ loadConfig(World) # <<>>)
          => /\ getConfig(World') = loadConfig(World)[1]
             /\ buildSocketUrl(World', P0) = loadConfig(World)[1].url

C29_ConfigRoundTrip == [][C29_Step]_vars

(* C30 - clearConfig: after clearConfig() the in-memory config equals the   *)
(* defaults (url null, authParams null, useLongPoll false,                    *)
(* disableLongPollFallback false) and the persisted phoenix_config record has *)
(* been cleared from storage.                                                 *)
C30_Step ==
    Entered(fx', "clearConfig")
        => /\ getConfig(World') = DefaultConfig
           /\ loadConfig(World') = <<>>

C30_ClearConfig == [][C30_Step]_vars

(* C31 - Global guard: the page-wide interception of console error output  *)
(* and unhandled rejections is installed at most once per page however many   *)
(* clients are constructed, and every intercepted error whose text matches    *)
(* the poll-status signature is routed into the recovery path of the socket   *)
(* error callback: long-poll disabled, status reconnecting, transport torn    *)
(* down, reconnect with the stored params after the fixed delay.              *)
InterceptedPollStatus(log) ==
    \/ Entered(log, "console.error") /\ log[1].v = "poll undefined"
    \/ Entered(log, "unhandledrejection") /\ log[1].v \in {"poll", "poll undefined"}

C31_Step ==
    /\ guardInstalls' <= 1
    /\ InterceptedPollStatus(fx')
         => /\ options'.config.useLongPoll = FALSE
            /\ DidWith(fx', "state", "reconnecting")
            /\ socket' = NoSock
            /\ socket # NoSock => socks'[socket] = "disconnected"
            /\ BagIn(Timer("poll", now + PollRecoveryDelayMs), timers')

C31_GlobalGuard == [][C31_Step]_vars

(* C32 - Reconnect counter and error field: in every reachable state with  *)
(* status connected, reconnectAttempts is 0 and error is unset;               *)
(* reconnectAttempts changes only by +1 on a failed connect attempt or by     *)
(* reset to 0 on a successful transport open, forceReconnect or reset.        *)
C32_Step ==
    /\ connectionState'.status = "connected"
         => /\ connectionState'.reconnectAttempts = 0
            /\ connectionState'.error = NULL
    /\ connectionState'.reconnectAttempts # connectionState.reconnectAttempts
         => \/ /\ connectionState'.reconnectAttempts
                    = connectionState.reconnectAttempts + 1
               /\ \/ Entered(fx', "connect")
                  \/ Entered(fx', "connect rejected")
                  \/ Entered(fx', "timer") /\ Did(fx', "connect")
               /\ Did(fx', "throw")
               /\ connectionState'.status = "error"
            \/ /\ connectionState'.reconnectAttempts = 0
               /\ \/ Entered(fx', "onOpen")
                  \/ Entered(fx', "forceReconnect")
                  \/ Entered(fx', "resetConnection")

C32_CounterAndError == [][C32_Step]_vars

C32_Witness ==
    /\ Entered(fx, "onOpen")
    /\ connectionState.status = "connected"
    /\ connectionState.reconnectAttempts = 0
    /\ connectionState.error = NULL
    /\ \E wt \in BagToSet(waiters) : wt.attempts > 0

(* C33 - Connect terminates: every connect call that starts an attempt      *)
(* eventually resolves or rejects, whatever the transport does (never opens,  *)
(* opens late, is disconnected or replaced meanwhile): the polling of         *)
(* waitForConnection performs at most a fixed number of checks and exceeding  *)
(* that ceiling rejects the call.                                             *)
C33_ConnectTerminates ==
    /\ (waiters # EmptyBag) ~> (waiters = EmptyBag)
    /\ [](\A wt \in BagToSet(waiters) :
             now - wt.start < WaitMaxAttempts * WaitCheckIntervalMs + TickMs)

C33_Witness ==
    /\ Entered(fx, "connect rejected")
    /\ DidWith(fx, "throw", "WAIT_LIMIT")
    /\ waiters = EmptyBag
    /\ \E s \in SockIds : socks[s] = "disconnected"

(* C34 - Params merge: the effective params of a connect call equal the    *)
(* last-used connection params overridden field by field by the call's        *)
(* params, with the params sub-map being the union of old and new keys where  *)
(* the new value wins on a shared key; this holds for every pair of last-used *)
(* and new params, including when persistence is unavailable and for the      *)
(* headers and timeout fields.                                                *)
(* The merge over the params last used in memory *)
mergeWithLastUsed(w, p) ==
    LET previous == IF w.connectionParams = <<>> THEN NoParams
                    ELSE w.connectionParams[1]
    IN [endpoint |-> Override(previous.endpoint, p.endpoint),
        params |-> Spread(previous.params, p.params),
        headers |-> Override(previous.headers, p.headers),
        timeout |-> Override(previous.timeout, p.timeout)]

C34_Step ==
    \A p \in {P0, P1, P2, P3} :
        (Connect(p, "ok") /\ NewSocketMade(fx'))
            => connectionParams' = <<mergeWithLastUsed(World, p)>>

C34_ParamsMerge == [][C34_Step]_vars

(* C35 - Backoff: the reconnect delay the transport obtains for attempt    *)
(* count n is monotone non-decreasing in n and never exceeds the cap for      *)
(* every n >= 0: min(1000*2^n, 30000) ms in the connection manager, and the   *)
(* table 1000*2^(n-1) ms for n in 1..8 held at 128000 ms for larger n (and    *)
(* 1000 ms for n <= 1) in the single-class client.                            *)
ClaimedDelay(variant, n) ==
    IF variant = "manager"
    THEN (IF n >= 5 THEN 30000 ELSE 1000 * 2^n)
    ELSE (IF n <= 1 THEN 1000 ELSE IF n <= 8 THEN 1000 * 2^(n - 1) ELSE 128000)

DelayOf(variant, n) ==
    IF variant = "manager" THEN calculateBackoffDelay(n) ELSE getReconnectDelay(n)

C35_Backoff ==
    Entered(fx, "reconnectAfterMs")
        => LET variant == fx[1].v
               n == fx[1].n
               delay == fx[2].n
           IN /\ delay = ClaimedDelay(variant, n)
              /\ delay <= (IF variant = "manager" THEN 30000 ELSE 128000)
              /\ \A m \in 0..n : DelayOf(variant, m) <= delay

C35_Witness ==
    /\ Entered(fx, "reconnectAfterMs")
    /\ fx[1].v = "manager"
    /\ fx[1].n > 5
    /\ fx[2].n = 30000

(* C36 - No leaked transport: after any sequence of connect, disconnect,   *)
(* forceReconnect, reset, setEnvironment and transport callbacks, at most one *)
(* transport that was constructed and not yet asked to disconnect exists per  *)
(* client; in particular connect never replaces a held handle without         *)
(* disconnecting it, and setEnvironment does not discard a manager that still *)
(* holds a live transport.                                                    *)
C36_Step ==
    /\ Cardinality(Undisconnected(World')) <= 1
    /\ (Entered(fx', "connect") /\ socket # NoSock /\ socket' # socket)
         => socks'[socket] = "disconnected"
    /\ (Entered(fx', "setEnvironment") /\ socket # NoSock)
         => socks'[socket] = "disconnected"

C36_NoLeakedTransport == [][C36_Step]_vars

(* C37 - Joined implies channel present: in every reachable state, if      *)
(* ChannelState(t).status is joined then the channel registry holds a channel *)
(* object for t; a join acknowledgment, error or close callback that arrives  *)
(* after leaveChannel(t) or cleanup() does not change or recreate             *)
(* ChannelState(t).                                                           *)
CallbackTopic(log) ==
    IF log = <<>> THEN 0
    ELSE IF log[1].k \in {"join ok", "join error", "join timeout"} THEN log[1].n
    ELSE IF log[1].k \in {"channel error", "channel close"} THEN chans[log[1].n].topic
    ELSE 0

C37_Step ==
    /\ \A t \in DOMAIN channelStates' :
          channelStates'[t].status = "joined" => t \in DOMAIN channels'
    /\ (CallbackTopic(fx') # 0 /\ CallbackTopic(fx') \notin DOMAIN channels)
          => channelStates' = channelStates

C37_JoinedImpliesChannel == [][C37_Step]_vars

(* C38 - Channel manager follows the current transport: whenever the       *)
(* connection manager holds a connected transport handle, the channel         *)
(* manager's socket reference is that same handle, also after a reconnect     *)
(* started by a forceReconnect or poll-status recovery timer rather than by   *)
(* the facade's connect; and whenever the connection manager holds no handle, *)
(* the channel manager's reference is null. A connect() of the facade that    *)
(* has not yet returned is given the time to hand its transport over.         *)
C38_FollowsTransport ==
    /\ (isConnected(World) /\ waiters = EmptyBag) => cmSocket = socket
    /\ socket = NoSock => cmSocket = NoSock

(* C39 - Disconnect is stable: once disconnect() or reset() has returned    *)
(* and no connect or forceReconnect is invoked afterwards, status stays       *)
(* disconnected and reconnectAttempts stays unchanged; in particular a        *)
(* connect attempt that was still waiting when disconnect was called neither  *)
(* moves status to error nor increments reconnectAttempts nor emits an error  *)
(* event later, and callbacks of the released transport no longer change      *)
(* ConnectionState. Where no forceReconnect and no recovery is ever made, the *)
(* states after a disconnect or reset (or before the first connect) are those *)
(* with status disconnected and no handle held.                               *)
C39_Step ==
    (/\ connectionState.status = "disconnected"
     /\ socket = NoSock
     /\ ~Entered(fx', "connect"))
        => /\ connectionState'.status = "disconnected"
           /\ connectionState'.reconnectAttempts = connectionState.reconnectAttempts
           /\ ~DidWith(fx', "emit", "phoenix_error")

C39_DisconnectStable == [][C39_Step]_vars

(* C40 - Bounded channel-state registry: after any sequence of joinChannel *)
(* and leaveChannel calls over arbitrarily many distinct topics, the number   *)
(* of ChannelState entries tracked by the channel manager never exceeds       *)
(* maxChannels, i.e. a topic that has been left no longer occupies an entry.  *)
C40_BoundedChannelStates == Cardinality(DOMAIN channelStates) <= maxChannels

====
